---- MODULE Spec2Model ----
(***************************************************************************)
(* A model of maybe-ts: the Maybe<T> family (MaybeValue, MaybeNone,        *)
(* MaybeNotFound) of src/src/maybe.ts and the Result<T,E> family           *)
(* (OkayResult, ErrorResult) of src/src/result.ts.                         *)
(*                                                                         *)
(* Instances live in a heap (a sequence of objects); the index of an       *)
(* object is its identity, so "the same instance" is "the same index".     *)
(* JavaScript values are records of one shape, told apart by the field t.  *)
(* Strings are sequences of one-character strings, so that concatenation   *)
(* and join are computed and can be inspected position by position.        *)
(***************************************************************************)
EXTENDS Integers, Sequences, FiniteSets, TLC

(* ---------------------------- bounds ----------------------------------- *)
\* the largest number of objects in the heap (three of them are the singletons)
MaxHeap == 5
\* the largest number of arguments given to a batch function
MaxArgs == 2
\* the largest number of labels given to Maybe.notFound
MaxWhat == 2
\* Result.wrapAsync is called at most MaxCalls times in one behaviour
MaxCalls == 2
\* a chain of operations on an absent Maybe has at most MaxChain links
MaxChain == 2

(* ---------------------------- values ----------------------------------- *)
Mk(t, n, items, msg, status, statusCode) ==
    [t |-> t, n |-> n, items |-> items, msg |-> msg,
     status |-> status, statusCode |-> statusCode]

\* a JavaScript number
Num(k) == Mk("num", k, <<>>, <<>>, 0, 0)
\* the JavaScript value undefined
Undefined == Mk("undefined", 0, <<>>, <<>>, 0, 0)
\* the JavaScript value null
Null == Mk("null", 0, <<>>, <<>>, 0, 0)
\* a reference to the heap object of identity i
Ref(i) == Mk("ref", i, <<>>, <<>>, 0, 0)
\* a JavaScript array of the values s
Arr(s) == Mk("array", 0, s, <<>>, 0, 0)

\* a JavaScript string of the characters s, a boolean, and the plain object {}
Str(s) == Mk("str", 0, <<>>, s, 0, 0)
Bool(b) == Mk("bool", IF b THEN 1 ELSE 0, <<>>, <<>>, 0, 0)
PlainObject == Mk("object", 0, <<>>, <<>>, 0, 0)

IsRef(v) == v.t = "ref"

\* "Maybe is none"
NoneErrorDefaultMessage ==
    <<"M", "a", "y", "b", "e", " ", "i", "s", " ", "n", "o", "n", "e">>

\* "NotFound: "
NotFoundPrefix == <<"N", "o", "t", "F", "o", "u", "n", "d", ":", " ">>

\* new NoneError(message?): the optional message is <<>> (omitted) or <<m>>
NoneError(message) ==
    Mk("NoneError", 0, <<>>,
       IF message = <<>> THEN NoneErrorDefaultMessage ELSE message[1], 0, 0)

\* new NotFoundError(msg): status and statusCode are the literal 404
NotFoundError(msg) == Mk("NotFoundError", 0, <<>>, msg, 404, 404)

\* Array.prototype.join on a list of strings
RECURSIVE join(_, _)
join(list, sep) ==
    IF Len(list) = 0 THEN <<>>
    ELSE IF Len(list) = 1 THEN list[1]
    ELSE list[1] \o sep \o join(Tail(list), sep)

(* ---------------------------- the heap --------------------------------- *)
Obj(cls, value, what) == [cls |-> cls, value |-> value, what |-> what]

\* value instanceof C, for C among the classes named in classes
InstanceOf(h, v, classes) == IsRef(v) /\ h[v.n].cls \in classes

MaybeClasses == {"MaybeValue", "MaybeNone", "MaybeNotFound"}
ResultClasses == {"OkayResult", "ErrorResult"}

\* the discriminants, class fields of the four classes
isValue(h, i) == h[i].cls = "MaybeValue"
\* an isNone that the subclass MaybeNotFound does not inherit
isNone_notInherited(h, i) == h[i].cls = "MaybeNone"
isNone(h, i) == h[i].cls \in {"MaybeNone", "MaybeNotFound"}
isOkay(h, i) == h[i].cls = "OkayResult"
isError(h, i) == h[i].cls = "ErrorResult"

\* a MaybeValue constructor that keeps a nested MaybeValue as its payload
MaybeValue_keepsNesting(h, value) == Obj("MaybeValue", value, <<>>)

\* new MaybeValue(value): protects against nesting
MaybeValue(h, value) ==
    Obj("MaybeValue",
        IF InstanceOf(h, value, {"MaybeValue"}) THEN h[value.n].value ELSE value,
        <<>>)

\* new MaybeNone()
MaybeNone == Obj("MaybeNone", Undefined, <<>>)

\* new MaybeNotFound(what)
MaybeNotFound(what) == Obj("MaybeNotFound", Undefined, what)

\* an OkayResult constructor that unwraps an OkayResult but not an ErrorResult
OkayResult_unwrapsOkayOnly(h, value) ==
    Obj("OkayResult",
        IF InstanceOf(h, value, {"OkayResult"}) THEN h[value.n].value ELSE value,
        <<>>)

\* new OkayResult(value): protects against double-wrapping
OkayResult(h, value) ==
    Obj("OkayResult",
        IF InstanceOf(h, value, ResultClasses) THEN h[value.n].value ELSE value,
        <<>>)

\* new ErrorResult(value): protects against double-wrapping
ErrorResult(h, value) ==
    Obj("ErrorResult",
        IF InstanceOf(h, value, ResultClasses) THEN h[value.n].value ELSE value,
        <<>>)

\* the singletons, created once when the modules load
None == 1
Empty == 2
OkayVoid == 3

InitHeap == <<MaybeNone, MaybeValue(<<>>, Undefined), OkayResult(<<>>, Undefined)>>

(* ---------------------------- outcomes --------------------------------- *)
\* The outcome of one call: the heap after it, what it returned or threw,
\* the callbacks it invoked (in order, with their arguments) and, for the
\* batch functions, the number of inputs whose discriminant was read.
Out(h, ret, raised, thrown, calls, examined) ==
    [heap |-> h, ret |-> ret, raised |-> raised, thrown |-> thrown,
     calls |-> calls, examined |-> examined]

Return(h, v, calls) == Out(h, v, FALSE, Undefined, calls, 0)
Throw(h, e, calls) == Out(h, Undefined, TRUE, e, calls, 0)
\* return a newly constructed object: it gets the next identity
ReturnNew(h, obj, calls) == Return(Append(h, obj), Ref(Len(h) + 1), calls)

(* ---------------------------- callbacks -------------------------------- *)
\* A callback is the identity, a constant function, or a function that throws.
Fn(k, v) == [k |-> k, v |-> v]
Identity == Fn("identity", Undefined)
Const(v) == Fn("const", v)
Thrower(v) == Fn("throw", v)

\* the value fn(args) returns; args is <<>> or <<a>>
Apply(fn, args) ==
    IF fn.k = "identity" THEN (IF args = <<>> THEN Undefined ELSE args[1])
    ELSE fn.v

\* a predicate: always true, always false, or typeof value === "number"
Always == Fn("always", Undefined)
Never == Fn("never", Undefined)
IsNumber == Fn("isNumber", Undefined)

\* the boolean the predicate fn(args) returns
Test(fn, args) ==
    fn.k = "always" \/ (fn.k = "isNumber" /\ args # <<>> /\ args[1].t = "num")

\* one entry of the log of invoked callbacks: the parameter that was invoked,
\* the function it was bound to and the arguments it was given
Called(param, fn, args) == [param |-> param, fn |-> fn, args |-> args]

(* ---------------------------- rendering -------------------------------- *)
\* the decimal digits of a small natural number
Digits == <<"0", "1", "2", "3", "4", "5", "6", "7", "8", "9">>

\* new Error(message)
Error(message) == Mk("Error", 0, <<>>, message, 0, 0)

\* utils.toString(val): String(val); the heap objects render through their own
\* toString methods, an Error as "Error: " and its message
RECURSIVE toString(_, _)
RECURSIVE joinValues(_, _)
toString(h, val) ==
    CASE val.t = "num" -> <<Digits[val.n + 1]>>
      [] val.t = "undefined" -> <<"u", "n", "d", "e", "f", "i", "n", "e", "d">>
      [] val.t = "null" -> <<"n", "u", "l", "l">>
      [] val.t = "array" -> joinValues(h, val.items)
      [] val.t = "str" -> val.msg
      [] val.t = "bool" ->
            IF val.n = 1 THEN <<"t", "r", "u", "e">> ELSE <<"f", "a", "l", "s", "e">>
      [] val.t = "object" -> <<"{", "}">>
      [] val.t \in {"Error", "NoneError", "NotFoundError"} ->
            <<"E", "r", "r", "o", "r">>
            \o (IF val.msg = <<>> THEN <<>> ELSE <<":", " ">> \o val.msg)
      [] val.t = "ref" ->
            CASE h[val.n].cls = "MaybeValue" ->
                    <<"V", "a", "l", "u", "e", "(">>
                    \o toString(h, h[val.n].value) \o <<")">>
              [] h[val.n].cls \in {"MaybeNone", "MaybeNotFound"} ->
                    <<"N", "o", "n", "e">>
              [] h[val.n].cls = "OkayResult" ->
                    <<"O", "k", "a", "y", "(">>
                    \o toString(h, h[val.n].value) \o <<")">>
              [] h[val.n].cls = "ErrorResult" ->
                    <<"E", "r", "r", "o", "r", "(">>
                    \o toString(h, h[val.n].value) \o <<")">>

\* Array.prototype.toString: the elements joined by ",", null and undefined empty
joinValues(h, items) ==
    IF Len(items) = 0 THEN <<>>
    ELSE (IF items[1].t \in {"undefined", "null"} THEN <<>> ELSE toString(h, items[1]))
         \o (IF Len(items) = 1 THEN <<>> ELSE <<",">> \o joinValues(h, Tail(items)))

(* ---------------------------- class MaybeNone -------------------------- *)
\* the optional altError of unwrapOrThrow: omitted, a message string, an
\* Error object or a function that produces the Error
AltError(k, s, v, fn) == [k |-> k, s |-> s, v |-> v, fn |-> fn]
AltOmitted == AltError("omitted", <<>>, Undefined, Identity)
AltString(s) == AltError("string", s, Undefined, Identity)
AltErrorObject(v) == AltError("error", <<>>, v, Identity)
AltFunction(fn) == AltError("function", <<>>, Undefined, fn)

\* JavaScript truthiness of an altError: undefined and "" are falsy
Truthy(altError) ==
    ~(altError.k = "omitted" \/ (altError.k = "string" /\ altError.s = <<>>))

MaybeNone_unwrap(h, self) == Throw(h, NoneError(<<>>), <<>>)

\* a MaybeNotFound without its override of unwrap
MaybeNotFound_unwrap_inherited(h, self) == Throw(h, NoneError(<<>>), <<>>)

\* class MaybeNotFound overrides unwrap
MaybeNotFound_unwrap(h, self) ==
    Throw(h, NotFoundError(NotFoundPrefix \o join(h[self].what, <<" ">>)), <<>>)

MaybeNone_unwrapOr(h, self, altValue) == Return(h, altValue, <<>>)

MaybeNone_unwrapOrElse(h, self, altValueFn) ==
    Return(h, Apply(altValueFn, <<>>), <<Called("altValueFn", altValueFn, <<>>)>>)

MaybeNone_unwrapOrNull(h, self) == Return(h, Null, <<>>)

MaybeNone_unwrapOrThrow(h, self, altError) ==
    IF ~Truthy(altError)
    THEN (IF h[self].cls = "MaybeNotFound"
          THEN MaybeNotFound_unwrap(h, self) ELSE MaybeNone_unwrap(h, self))
    ELSE IF altError.k = "error" THEN Throw(h, altError.v, <<>>)
    ELSE IF altError.k = "function"
    THEN Throw(h, Apply(altError.fn, <<>>), <<Called("altError", altError.fn, <<>>)>>)
    ELSE Throw(h, NoneError(<<altError.s>>), <<>>)

\* an expectSome that raises what unwrap raises on a MaybeNotFound
MaybeNone_expectSome_asUnwrap(h, self, message) ==
    IF h[self].cls = "MaybeNotFound" THEN MaybeNotFound_unwrap(h, self)
    ELSE Throw(h, NoneError(message), <<>>)

MaybeNone_expectSome(h, self, message) == Throw(h, NoneError(message), <<>>)

MaybeNone_expectNone(h, self, message) == Return(h, Ref(self), <<>>)

MaybeNone_or(h, self, other) == Return(h, other, <<>>)

MaybeNone_orElse(h, self, otherFn) ==
    Return(h, Apply(otherFn, <<>>), <<Called("otherFn", otherFn, <<>>)>>)

MaybeNone_and(h, self, other) == Return(h, Ref(self), <<>>)

MaybeNone_andThen(h, self, mapperFn) == Return(h, Ref(self), <<>>)

\* map returning the generic singleton for every absent receiver
MaybeNone_map_generic(h, self, mapperFn) == Return(h, Ref(None), <<>>)

MaybeNone_map(h, self, mapperFn) == Return(h, Ref(self), <<>>)

\* mapOr short-circuiting on an absent receiver, as map does
MaybeNone_mapOr_absent(h, self, mapperFn, altValue) == Return(h, Ref(self), <<>>)

MaybeNone_mapOr(h, self, mapperFn, altValue) ==
    ReturnNew(h, MaybeValue(h, altValue), <<>>)

MaybeNone_mapOrElse(h, self, mapperFn, altValueFn) ==
    ReturnNew(h, MaybeValue(h, Apply(altValueFn, <<>>)),
              <<Called("altValueFn", altValueFn, <<>>)>>)

MaybeNone_filter(h, self, predicateFn) == Return(h, Ref(self), <<>>)

\* toResult(error?): error ?? new NoneError(); the optional error is <<>> or <<e>>,
\* and ?? also replaces an explicit null or undefined
MaybeNone_toResult(h, self, error) ==
    ReturnNew(h,
        ErrorResult(h, IF error = <<>> \/ error[1].t \in {"undefined", "null"}
                       THEN NoneError(<<>>) ELSE error[1]),
        <<>>)

(* ---------------------------- class MaybeValue ------------------------- *)
MaybeValue_unwrap(h, self) == Return(h, h[self].value, <<>>)

MaybeValue_unwrapOr(h, self, altValue) == Return(h, h[self].value, <<>>)

\* an unwrapOrElse that evaluates its fallback before it looks at the receiver
MaybeValue_unwrapOrElse_eager(h, self, altValueFn) ==
    Return(h, h[self].value, <<Called("altValueFn", altValueFn, <<>>)>>)

MaybeValue_unwrapOrElse(h, self, altValueFn) == Return(h, h[self].value, <<>>)

MaybeValue_unwrapOrNull(h, self) == Return(h, h[self].value, <<>>)

MaybeValue_unwrapOrThrow(h, self, altError) == Return(h, h[self].value, <<>>)

MaybeValue_expectSome(h, self, message) == Return(h, h[self].value, <<>>)

ExpectedNoneHave ==
    <<"E", "x", "p", "e", "c", "t", "e", "d", " ", "N", "o", "n", "e", ",", " ",
      "h", "a", "v", "e", " ">>

MaybeValue_expectNone(h, self, message) ==
    Throw(h,
          Error(IF message = <<>> THEN ExpectedNoneHave \o toString(h, Ref(self))
                ELSE message[1]),
          <<>>)

MaybeValue_or(h, self, other) == Return(h, Ref(self), <<>>)

MaybeValue_orElse(h, self, otherFn) == Return(h, Ref(self), <<>>)

\* an and that keeps the receiver, as or does
MaybeValue_and_keeping(h, self, other) == Return(h, Ref(self), <<>>)
MaybeValue_and(h, self, other) == Return(h, other, <<>>)

\* andThen wrapping what mapperFn returned, as map does
MaybeValue_andThen_rewrapped(h, self, mapperFn) ==
    ReturnNew(h, MaybeValue(h, Apply(mapperFn, <<h[self].value>>)),
              <<Called("mapperFn", mapperFn, <<h[self].value>>)>>)

MaybeValue_andThen(h, self, mapperFn) ==
    Return(h, Apply(mapperFn, <<h[self].value>>),
           <<Called("mapperFn", mapperFn, <<h[self].value>>)>>)

MaybeValue_map(h, self, mapperFn) ==
    ReturnNew(h, MaybeValue(h, Apply(mapperFn, <<h[self].value>>)),
              <<Called("mapperFn", mapperFn, <<h[self].value>>)>>)

MaybeValue_mapOr(h, self, mapperFn, altValue) ==
    ReturnNew(h, MaybeValue(h, Apply(mapperFn, <<h[self].value>>)),
              <<Called("mapperFn", mapperFn, <<h[self].value>>)>>)

MaybeValue_mapOrElse(h, self, mapperFn, altValueFn) ==
    ReturnNew(h, MaybeValue(h, Apply(mapperFn, <<h[self].value>>)),
              <<Called("mapperFn", mapperFn, <<h[self].value>>)>>)

\* filter keeping the value when the predicate fails
MaybeValue_filter_inverted(h, self, predicateFn) ==
    Return(h,
           IF Test(predicateFn, <<h[self].value>>) THEN Ref(None) ELSE Ref(self),
           <<Called("predicateFn", predicateFn, <<h[self].value>>)>>)

MaybeValue_filter(h, self, predicateFn) ==
    Return(h,
           IF Test(predicateFn, <<h[self].value>>) THEN Ref(self) ELSE Ref(None),
           <<Called("predicateFn", predicateFn, <<h[self].value>>)>>)

\* a toResult that moves the payload out of its source
MaybeValue_toResult_moving(h, self, error) ==
    ReturnNew([h EXCEPT ![self].value = Undefined], OkayResult(h, h[self].value), <<>>)

MaybeValue_toResult(h, self, error) ==
    ReturnNew(h, OkayResult(h, h[self].value), <<>>)

(* ---------------------------- class ErrorResult ------------------------ *)
\* The captured stack text (_stack) is diagnostic only and is rendered as "",
\* the value the constructor stores when the engine provides no stack.
ErrorResult_unwrap(h, self) == Throw(h, h[self].value, <<>>)

ErrorResult_unwrapOr(h, self, altValue) == Return(h, altValue, <<>>)

ErrorResult_unwrapOrElse(h, self, altValueFn) ==
    Return(h, Apply(altValueFn, <<h[self].value>>),
           <<Called("altValueFn", altValueFn, <<h[self].value>>)>>)

ErrorResult_unwrapOrNull(h, self) == Return(h, Null, <<>>)

ErrorResult_unwrapOrThrow(h, self, altError) ==
    IF Truthy(altError)
    THEN (IF altError.k = "function"
          THEN Throw(h, Apply(altError.fn, <<h[self].value>>),
                     <<Called("altError", altError.fn, <<h[self].value>>)>>)
          ELSE IF altError.k = "error" THEN Throw(h, altError.v, <<>>)
          ELSE Throw(h, Error(altError.s), <<>>))
    ELSE Throw(h, h[self].value, <<>>)

ExpectedOkay == <<"E", "x", "p", "e", "c", "t", "e", "d", " ", "O", "k", "a", "y">>
ExpectedError ==
    <<"E", "x", "p", "e", "c", "t", "e", "d", " ", "E", "r", "r", "o", "r">>

ErrorResult_assertIsOkay(h, self, message) ==
    Throw(h,
          Error((IF message = <<>> THEN ExpectedOkay ELSE message[1])
                \o <<" ", "-", " ">> \o toString(h, Ref(self)) \o <<"\n">>),
          <<>>)

ErrorResult_assertIsError(h, self, message) == Return(h, h[self].value, <<>>)

ErrorResult_or(h, self, other) == Return(h, other, <<>>)

ErrorResult_orElse(h, self, otherFn) ==
    Return(h, Apply(otherFn, <<h[self].value>>),
           <<Called("otherFn", otherFn, <<h[self].value>>)>>)

ErrorResult_and(h, self, other) == Return(h, Ref(self), <<>>)

ErrorResult_andThen(h, self, mapperFn) == Return(h, Ref(self), <<>>)

ErrorResult_map(h, self, mapperFn) == Return(h, Ref(self), <<>>)

ErrorResult_mapOr(h, self, mapperFn, altValue) ==
    ReturnNew(h, OkayResult(h, altValue), <<>>)

ErrorResult_mapOrElse(h, self, mapperFn, altValueFn) ==
    ReturnNew(h, OkayResult(h, Apply(altValueFn, <<h[self].value>>)),
              <<Called("altValueFn", altValueFn, <<h[self].value>>)>>)

ErrorResult_mapError(h, self, mapperFn) ==
    ReturnNew(h, ErrorResult(h, Apply(mapperFn, <<h[self].value>>)),
              <<Called("mapperFn", mapperFn, <<h[self].value>>)>>)

\* toMaybe building a fresh MaybeNone instead of returning the singleton
ErrorResult_toMaybe_fresh(h, self) == ReturnNew(h, MaybeNone, <<>>)
ErrorResult_toMaybe(h, self) == Return(h, Ref(None), <<>>)

(* ---------------------------- class OkayResult ------------------------- *)
OkayResult_unwrap(h, self) == Return(h, h[self].value, <<>>)

OkayResult_unwrapOr(h, self, altValue) == Return(h, h[self].value, <<>>)

OkayResult_unwrapOrElse(h, self, altValueFn) == Return(h, h[self].value, <<>>)

OkayResult_unwrapOrNull(h, self) == Return(h, h[self].value, <<>>)

OkayResult_unwrapOrThrow(h, self, altError) == Return(h, h[self].value, <<>>)

OkayResult_safeUnwrap(h, self) == Return(h, h[self].value, <<>>)

OkayResult_assertIsOkay(h, self, message) == Return(h, h[self].value, <<>>)

OkayResult_assertIsError(h, self, message) ==
    Throw(h,
          Error((IF message = <<>> THEN ExpectedError ELSE message[1])
                \o <<" ", "-", " ">> \o toString(h, Ref(self))),
          <<>>)

OkayResult_or(h, self, other) == Return(h, Ref(self), <<>>)

OkayResult_orElse(h, self, otherFn) == Return(h, Ref(self), <<>>)

OkayResult_and(h, self, other) == Return(h, other, <<>>)

OkayResult_andThen(h, self, mapperFn) ==
    Return(h, Apply(mapperFn, <<h[self].value>>),
           <<Called("mapperFn", mapperFn, <<h[self].value>>)>>)

\* map putting what mapperFn returned into an ErrorResult
OkayResult_map_asError(h, self, mapperFn) ==
    ReturnNew(h, ErrorResult(h, Apply(mapperFn, <<h[self].value>>)),
              <<Called("mapperFn", mapperFn, <<h[self].value>>)>>)

OkayResult_map(h, self, mapperFn) ==
    ReturnNew(h, OkayResult(h, Apply(mapperFn, <<h[self].value>>)),
              <<Called("mapperFn", mapperFn, <<h[self].value>>)>>)

OkayResult_mapOr(h, self, mapperFn, altValue) ==
    ReturnNew(h, OkayResult(h, Apply(mapperFn, <<h[self].value>>)),
              <<Called("mapperFn", mapperFn, <<h[self].value>>)>>)

OkayResult_mapOrElse(h, self, mapperFn, altValueFn) ==
    ReturnNew(h, OkayResult(h, Apply(mapperFn, <<h[self].value>>)),
              <<Called("mapperFn", mapperFn, <<h[self].value>>)>>)

\* a mapError that maps the payload of an OkayResult, as map does
OkayResult_mapError_mapping(h, self, mapperFn) ==
    ReturnNew(h, OkayResult(h, Apply(mapperFn, <<h[self].value>>)),
              <<Called("mapperFn", mapperFn, <<h[self].value>>)>>)

OkayResult_mapError(h, self, mapperFn) == Return(h, Ref(self), <<>>)

\* Maybe.withValue(value)
withValue(h, value) == ReturnNew(h, MaybeValue(h, value), <<>>)

\* a toMaybe that drops the payload of an OkayResult
OkayResult_toMaybe_dropping(h, self) == Return(h, Ref(None), <<>>)
OkayResult_toMaybe(h, self) == withValue(h, h[self].value)

(* ---------------------------- namespace Maybe -------------------------- *)
\* Maybe.notFound(...what)
notFound(h, what) == ReturnNew(h, MaybeNotFound(what), <<>>)

\* Maybe.asNone()
asNone(h) == Return(h, Ref(None), <<>>)

\* Maybe.empty()
empty(h) == Return(h, Ref(Empty), <<>>)

\* a wrap that tests the truthiness of value instead of value == null
Maybe_wrap_truthy(h, value) ==
    IF \/ value.t \in {"null", "undefined"}
       \/ value \in {Num(0), Str(<<>>), Bool(FALSE)}
    THEN Return(h, Ref(None), <<>>)
    ELSE ReturnNew(h, MaybeValue(h, value), <<>>)

\* Maybe.wrap(value): value == null holds of null and of undefined
Maybe_wrap(h, value) ==
    IF value.t \in {"null", "undefined"} THEN Return(h, Ref(None), <<>>)
    ELSE ReturnNew(h, MaybeValue(h, value), <<>>)

Examined(out, n) == [out EXCEPT !.examined = n]

\* an allOrNone that answers the generic None for any absent input
allOrNoneLoop_genericNone(h, maybes, i, someValues) ==
    IF \A k \in 1..Len(maybes) : isValue(h, maybes[k])
    THEN Examined(ReturnNew(h, MaybeValue(h,
             Arr([k \in 1..Len(maybes) |-> h[maybes[k]].value])), <<>>), Len(maybes))
    ELSE Examined(Return(h, Ref(None), <<>>),
                  CHOOSE k \in 1..Len(maybes) :
                      /\ ~isValue(h, maybes[k])
                      /\ \A j \in 1..(k - 1) : isValue(h, maybes[j]))

\* Maybe.allOrNone(...maybes): the for loop, at its i-th input
RECURSIVE allOrNoneLoop(_, _, _, _)
allOrNoneLoop(h, maybes, i, someValues) ==
    IF i > Len(maybes)
    THEN Examined(ReturnNew(h, MaybeValue(h, Arr(someValues)), <<>>), i - 1)
    ELSE IF isValue(h, maybes[i])
    THEN allOrNoneLoop(h, maybes, i + 1, Append(someValues, h[maybes[i]].value))
    ELSE Examined(Return(h, Ref(maybes[i]), <<>>), i)

allOrNone(h, maybes) == allOrNoneLoop(h, maybes, 1, <<>>)

\* maybe.unwrap(), by the class of maybe
Maybe_unwrap(h, maybe) ==
    CASE h[maybe].cls = "MaybeValue" -> MaybeValue_unwrap(h, maybe)
      [] h[maybe].cls = "MaybeNone" -> MaybeNone_unwrap(h, maybe)
      [] h[maybe].cls = "MaybeNotFound" -> MaybeNotFound_unwrap(h, maybe)

\* a filter that keeps every input
filterIsValue_keepsAll(h, maybes) == maybes

\* array.filter(keep): the elements keep holds of, in order
RECURSIVE filterIsValue(_, _)
filterIsValue(h, maybes) ==
    IF maybes = <<>> THEN <<>>
    ELSE (IF isValue(h, Head(maybes)) THEN <<Head(maybes)>> ELSE <<>>)
         \o filterIsValue(h, Tail(maybes))

\* a map that collects the payloads in reverse order
mapUnwrap_reversed(h, maybes, values) ==
    Return(h, Arr([k \in 1..Len(maybes) |-> h[maybes[Len(maybes) + 1 - k]].value]), <<>>)

\* array.map((maybe) => maybe.unwrap()): stops at the first unwrap that throws
RECURSIVE mapUnwrap(_, _, _)
mapUnwrap(h, maybes, values) ==
    IF maybes = <<>> THEN Return(h, Arr(values), <<>>)
    ELSE IF Maybe_unwrap(h, Head(maybes)).raised
    THEN Maybe_unwrap(h, Head(maybes))
    ELSE mapUnwrap(h, Tail(maybes), Append(values, Maybe_unwrap(h, Head(maybes)).ret))

\* Maybe.allValues(...maybes): filter reads the discriminant of every input
allValues(h, maybes) ==
    Examined(mapUnwrap(h, filterIsValue(h, maybes), <<>>), Len(maybes))

\* an any that answers its last input when no input is a value
Maybe_anyLoop_lastInput(h, maybes, i) ==
    IF \E k \in 1..Len(maybes) : isValue(h, maybes[k])
    THEN Return(h, Ref(maybes[CHOOSE k \in 1..Len(maybes) :
                                 /\ isValue(h, maybes[k])
                                 /\ \A j \in 1..(k - 1) : ~isValue(h, maybes[j])]), <<>>)
    ELSE Return(h, Ref(IF maybes = <<>> THEN None ELSE maybes[Len(maybes)]), <<>>)

\* Maybe.any(...maybes): the for loop, at its i-th input
RECURSIVE Maybe_anyLoop(_, _, _)
Maybe_anyLoop(h, maybes, i) ==
    IF i > Len(maybes) THEN Examined(Return(h, Ref(None), <<>>), i - 1)
    ELSE IF isValue(h, maybes[i]) THEN Examined(Return(h, Ref(maybes[i]), <<>>), i)
    ELSE Maybe_anyLoop(h, maybes, i + 1)

Maybe_any(h, maybes) == Maybe_anyLoop(h, maybes, 1)

(* ---------------------------- namespace Result ------------------------- *)
\* Result.okay(value)
okay(h, value) == ReturnNew(h, OkayResult(h, value), <<>>)

\* an okayVoid that builds a new OkayResult on every call
okayVoid_fresh(h) == ReturnNew(h, OkayResult(h, Undefined), <<>>)
\* Result.okayVoid()
okayVoid(h) == Return(h, Ref(OkayVoid), <<>>)

\* Result.error(error)
error(h, e) == ReturnNew(h, ErrorResult(h, e), <<>>)

\* Result.all(...results): the for loop, at its i-th input
RECURSIVE allLoop(_, _, _, _)
allLoop(h, results, i, okResult) ==
    IF i > Len(results)
    THEN Examined(ReturnNew(h, OkayResult(h, Arr(okResult)), <<>>), i - 1)
    ELSE IF isOkay(h, results[i])
    THEN allLoop(h, results, i + 1, Append(okResult, h[results[i]].value))
    ELSE Examined(Return(h, Ref(results[i]), <<>>), i)

\* an all that answers the OkayVoid singleton for no inputs
all_voidWhenEmpty(h, results) ==
    IF results = <<>> THEN Examined(Return(h, Ref(OkayVoid), <<>>), 0)
    ELSE allLoop(h, results, 1, <<>>)
all(h, results) == allLoop(h, results, 1, <<>>)

\* an any that keeps only the error of the input it is at
Result_anyLoop_lastError(h, results, i, errResult) ==
    IF \E k \in 1..Len(results) : isOkay(h, results[k])
    THEN Return(h, Ref(results[CHOOSE k \in 1..Len(results) :
                                  /\ isOkay(h, results[k])
                                  /\ \A j \in 1..(k - 1) : ~isOkay(h, results[j])]), <<>>)
    ELSE ReturnNew(h, ErrorResult(h,
             Arr(IF results = <<>> THEN <<>>
                 ELSE <<h[results[Len(results)]].value>>)), <<>>)

\* Result.any(...results): the for loop, at its i-th input
RECURSIVE Result_anyLoop(_, _, _, _)
Result_anyLoop(h, results, i, errResult) ==
    IF i > Len(results)
    THEN Examined(ReturnNew(h, ErrorResult(h, Arr(errResult)), <<>>), i - 1)
    ELSE IF isOkay(h, results[i])
    THEN Examined(Return(h, Ref(results[i]), <<>>), i)
    ELSE Result_anyLoop(h, results, i + 1, Append(errResult, h[results[i]].value))

Result_any(h, results) == Result_anyLoop(h, results, 1, <<>>)

\* a wrap without its catch clause
Result_wrap_noCatch(h, opFn) ==
    IF opFn.k = "throw" THEN Throw(h, opFn.v, <<Called("opFn", opFn, <<>>)>>)
    ELSE ReturnNew(h, OkayResult(h, Apply(opFn, <<>>)), <<Called("opFn", opFn, <<>>)>>)

\* Result.wrap(opFn): try { new OkayResult(opFn()) } catch (e) { new ErrorResult(e) }
Result_wrap(h, opFn) ==
    IF opFn.k = "throw"
    THEN ReturnNew(h, ErrorResult(h, opFn.v), <<Called("opFn", opFn, <<>>)>>)
    ELSE ReturnNew(h, OkayResult(h, Apply(opFn, <<>>)), <<Called("opFn", opFn, <<>>)>>)

(* ---------------------------- state ----------------------------------- *)
\* heap: the instances created so far; last: the most recent call, with its
\* receiver (self, 0 for a namespace function), its arguments and its outcome
\* async: the calls of Result.wrapAsync made so far, each with the promise opFn
\* returned (source), the promise of .then (then) and the promise of .catch,
\* which is the one the call returns; jobs: the queue of promise reaction jobs
VARIABLES heap, last, async, jobs
vars == <<heap, last, async, jobs>>

Ids(h) == 1..Len(h)
Maybes(h) == {i \in Ids(h) : h[i].cls \in MaybeClasses}
Results(h) == {i \in Ids(h) : h[i].cls \in ResultClasses}
Refs(h) == {Ref(i) : i \in Ids(h)}

\* the sequences over S of length at most n
SeqsUpTo(S, n) == UNION {[1..k -> S] : k \in 0..n}

\* the inputs the calls are tried on
Scalars == {Num(1), Null}
Values(h) == Scalars \cup Refs(h)
AltValues(h) == {Num(2)} \cup Refs(h)
Labels == {<<"a">>, <<"b", " ">>}
Messages == {<<>>, <<<<>>>>, <<<<"m">>>>}
Mappers(h) == {Identity} \cup {Const(v) : v \in AltValues(h)}
SmallMappers == {Identity, Const(Num(2))}
Thunks(h) == {Const(v) : v \in AltValues(h)}
MaybeFns(h) == {Const(Ref(i)) : i \in Maybes(h)}
ResultFns(h) == {Const(Ref(i)) : i \in Results(h)}
Predicates == {Always, Never, IsNumber}
Thrown(h) == {Num(1), Error(<<"x">>)} \cup Refs(h)
OpFns(h) == {Const(v) : v \in Values(h)} \cup {Thrower(v) : v \in Thrown(h)}
AltErrors ==
    {AltOmitted, AltString(<<>>), AltString(<<"m">>), AltErrorObject(Error(<<"x">>)),
     AltFunction(Const(Error(<<"y">>)))}

\* a call and its arguments, before its outcome is known
Rec(op, self) ==
    [op |-> op, self |-> self, arg |-> Undefined, fn |-> Identity, fn2 |-> Identity,
     alt |-> AltOmitted, message |-> <<>>, error |-> <<>>, list |-> <<>>,
     what |-> <<>>,
     ret |-> Undefined, raised |-> FALSE, thrown |-> Undefined, calls |-> <<>>,
     examined |-> 0, created |-> TRUE]

\* The call rec is made and has the outcome out. No call changes an object of
\* the heap, so the calls that can follow a call that created nothing are the
\* calls that can follow the state before it: calls are explored from the
\* states that a creating call (or the start) has reached, which reaches every
\* state. Calls are made while the heap has fewer than MaxHeap objects.
Ready == last.created /\ Len(heap) < MaxHeap

Step(rec, out) ==
    /\ Ready
    /\ heap' = out.heap
    /\ last' = [rec EXCEPT !.ret = out.ret, !.raised = out.raised,
                           !.thrown = out.thrown, !.calls = out.calls,
                           !.examined = out.examined,
                           !.created = Len(out.heap) > Len(heap)]
    /\ UNCHANGED <<async, jobs>>

Init ==
    /\ heap = InitHeap
    /\ last = Rec("init", 0)
    /\ async = <<>>
    /\ jobs = <<>>

(* ---------------------------- calls on a Maybe ------------------------- *)
IsV(self) == heap[self].cls = "MaybeValue"

BaseMaybe_unwrap ==
    /\ Ready
    /\ \E self \in Maybes(heap) :
        Step(Rec("unwrap", self), Maybe_unwrap(heap, self))

BaseMaybe_unwrapOr ==
    /\ Ready
    /\ \E self \in Maybes(heap), altValue \in AltValues(heap) :
        Step([Rec("unwrapOr", self) EXCEPT !.arg = altValue],
             IF IsV(self) THEN MaybeValue_unwrapOr(heap, self, altValue)
             ELSE MaybeNone_unwrapOr(heap, self, altValue))

BaseMaybe_unwrapOrElse ==
    /\ Ready
    /\ \E self \in Maybes(heap), altValueFn \in Thunks(heap) :
        Step([Rec("unwrapOrElse", self) EXCEPT !.fn2 = altValueFn],
             IF IsV(self) THEN MaybeValue_unwrapOrElse(heap, self, altValueFn)
             ELSE MaybeNone_unwrapOrElse(heap, self, altValueFn))

BaseMaybe_unwrapOrNull ==
    /\ Ready
    /\ \E self \in Maybes(heap) :
        Step(Rec("unwrapOrNull", self),
             IF IsV(self) THEN MaybeValue_unwrapOrNull(heap, self)
             ELSE MaybeNone_unwrapOrNull(heap, self))

BaseMaybe_unwrapOrThrow ==
    /\ Ready
    /\ \E self \in Maybes(heap), altError \in AltErrors :
        Step([Rec("unwrapOrThrow", self) EXCEPT !.alt = altError],
             IF IsV(self) THEN MaybeValue_unwrapOrThrow(heap, self, altError)
             ELSE MaybeNone_unwrapOrThrow(heap, self, altError))

BaseMaybe_expectSome ==
    /\ Ready
    /\ \E self \in Maybes(heap), message \in Messages :
        Step([Rec("expectSome", self) EXCEPT !.message = message],
             IF IsV(self) THEN MaybeValue_expectSome(heap, self, message)
             ELSE MaybeNone_expectSome(heap, self, message))

BaseMaybe_expectNone ==
    /\ Ready
    /\ \E self \in Maybes(heap), message \in Messages :
        Step([Rec("expectNone", self) EXCEPT !.message = message],
             IF IsV(self) THEN MaybeValue_expectNone(heap, self, message)
             ELSE MaybeNone_expectNone(heap, self, message))

BaseMaybe_or ==
    /\ Ready
    /\ \E self \in Maybes(heap), other \in Maybes(heap) :
        Step([Rec("or", self) EXCEPT !.arg = Ref(other)],
             IF IsV(self) THEN MaybeValue_or(heap, self, Ref(other))
             ELSE MaybeNone_or(heap, self, Ref(other)))

BaseMaybe_orElse ==
    /\ Ready
    /\ \E self \in Maybes(heap), otherFn \in MaybeFns(heap) :
        Step([Rec("orElse", self) EXCEPT !.fn2 = otherFn],
             IF IsV(self) THEN MaybeValue_orElse(heap, self, otherFn)
             ELSE MaybeNone_orElse(heap, self, otherFn))

BaseMaybe_and ==
    /\ Ready
    /\ \E self \in Maybes(heap), other \in Maybes(heap) :
        Step([Rec("and", self) EXCEPT !.arg = Ref(other)],
             IF IsV(self) THEN MaybeValue_and(heap, self, Ref(other))
             ELSE MaybeNone_and(heap, self, Ref(other)))

BaseMaybe_andThen ==
    /\ Ready
    /\ \E self \in Maybes(heap), mapperFn \in MaybeFns(heap) :
        Step([Rec("andThen", self) EXCEPT !.fn = mapperFn],
             IF IsV(self) THEN MaybeValue_andThen(heap, self, mapperFn)
             ELSE MaybeNone_andThen(heap, self, mapperFn))

BaseMaybe_map ==
    /\ Ready
    /\ \E self \in Maybes(heap), mapperFn \in Mappers(heap) :
        Step([Rec("map", self) EXCEPT !.fn = mapperFn],
             IF IsV(self) THEN MaybeValue_map(heap, self, mapperFn)
             ELSE MaybeNone_map(heap, self, mapperFn))

BaseMaybe_mapOr ==
    /\ Ready
    /\ \E self \in Maybes(heap), mapperFn \in SmallMappers, altValue \in AltValues(heap) :
        Step([Rec("mapOr", self) EXCEPT !.fn = mapperFn, !.arg = altValue],
             IF IsV(self) THEN MaybeValue_mapOr(heap, self, mapperFn, altValue)
             ELSE MaybeNone_mapOr(heap, self, mapperFn, altValue))

BaseMaybe_mapOrElse ==
    /\ Ready
    /\ \E self \in Maybes(heap), mapperFn \in SmallMappers, altValueFn \in Thunks(heap) :
        Step([Rec("mapOrElse", self) EXCEPT !.fn = mapperFn, !.fn2 = altValueFn],
             IF IsV(self) THEN MaybeValue_mapOrElse(heap, self, mapperFn, altValueFn)
             ELSE MaybeNone_mapOrElse(heap, self, mapperFn, altValueFn))

BaseMaybe_filter ==
    /\ Ready
    /\ \E self \in Maybes(heap), predicateFn \in Predicates :
        Step([Rec("filter", self) EXCEPT !.fn = predicateFn],
             IF IsV(self) THEN MaybeValue_filter(heap, self, predicateFn)
             ELSE MaybeNone_filter(heap, self, predicateFn))

\* the optional error of toResult: omitted, or one of the values
BaseMaybe_toResult ==
    /\ Ready
    /\ \E self \in Maybes(heap),
       e \in {<<>>} \cup {<<v>> : v \in Values(heap) \cup {Undefined}} :
        Step([Rec("toResult", self) EXCEPT !.error = e],
             IF IsV(self) THEN MaybeValue_toResult(heap, self, e)
             ELSE MaybeNone_toResult(heap, self, e))

(* ---------------------------- calls on a Result ------------------------ *)
IsO(self) == heap[self].cls = "OkayResult"

BaseResult_unwrap ==
    /\ Ready
    /\ \E self \in Results(heap) :
        Step(Rec("Result.unwrap", self),
             IF IsO(self) THEN OkayResult_unwrap(heap, self)
             ELSE ErrorResult_unwrap(heap, self))

BaseResult_unwrapOr ==
    /\ Ready
    /\ \E self \in Results(heap), altValue \in AltValues(heap) :
        Step([Rec("Result.unwrapOr", self) EXCEPT !.arg = altValue],
             IF IsO(self) THEN OkayResult_unwrapOr(heap, self, altValue)
             ELSE ErrorResult_unwrapOr(heap, self, altValue))

BaseResult_unwrapOrElse ==
    /\ Ready
    /\ \E self \in Results(heap), altValueFn \in Thunks(heap) :
        Step([Rec("Result.unwrapOrElse", self) EXCEPT !.fn2 = altValueFn],
             IF IsO(self) THEN OkayResult_unwrapOrElse(heap, self, altValueFn)
             ELSE ErrorResult_unwrapOrElse(heap, self, altValueFn))

BaseResult_unwrapOrNull ==
    /\ Ready
    /\ \E self \in Results(heap) :
        Step(Rec("Result.unwrapOrNull", self),
             IF IsO(self) THEN OkayResult_unwrapOrNull(heap, self)
             ELSE ErrorResult_unwrapOrNull(heap, self))

BaseResult_unwrapOrThrow ==
    /\ Ready
    /\ \E self \in Results(heap), altError \in AltErrors :
        Step([Rec("Result.unwrapOrThrow", self) EXCEPT !.alt = altError],
             IF IsO(self) THEN OkayResult_unwrapOrThrow(heap, self, altError)
             ELSE ErrorResult_unwrapOrThrow(heap, self, altError))

BaseResult_assertIsOkay ==
    /\ Ready
    /\ \E self \in Results(heap), message \in Messages :
        Step([Rec("Result.assertIsOkay", self) EXCEPT !.message = message],
             IF IsO(self) THEN OkayResult_assertIsOkay(heap, self, message)
             ELSE ErrorResult_assertIsOkay(heap, self, message))

BaseResult_assertIsError ==
    /\ Ready
    /\ \E self \in Results(heap), message \in Messages :
        Step([Rec("Result.assertIsError", self) EXCEPT !.message = message],
             IF IsO(self) THEN OkayResult_assertIsError(heap, self, message)
             ELSE ErrorResult_assertIsError(heap, self, message))

BaseResult_or ==
    /\ Ready
    /\ \E self \in Results(heap), other \in Results(heap) :
        Step([Rec("Result.or", self) EXCEPT !.arg = Ref(other)],
             IF IsO(self) THEN OkayResult_or(heap, self, Ref(other))
             ELSE ErrorResult_or(heap, self, Ref(other)))

BaseResult_orElse ==
    /\ Ready
    /\ \E self \in Results(heap), otherFn \in ResultFns(heap) :
        Step([Rec("Result.orElse", self) EXCEPT !.fn2 = otherFn],
             IF IsO(self) THEN OkayResult_orElse(heap, self, otherFn)
             ELSE ErrorResult_orElse(heap, self, otherFn))

BaseResult_and ==
    /\ Ready
    /\ \E self \in Results(heap), other \in Results(heap) :
        Step([Rec("Result.and", self) EXCEPT !.arg = Ref(other)],
             IF IsO(self) THEN OkayResult_and(heap, self, Ref(other))
             ELSE ErrorResult_and(heap, self, Ref(other)))

BaseResult_andThen ==
    /\ Ready
    /\ \E self \in Results(heap), mapperFn \in ResultFns(heap) :
        Step([Rec("Result.andThen", self) EXCEPT !.fn = mapperFn],
             IF IsO(self) THEN OkayResult_andThen(heap, self, mapperFn)
             ELSE ErrorResult_andThen(heap, self, mapperFn))

BaseResult_map ==
    /\ Ready
    /\ \E self \in Results(heap), mapperFn \in Mappers(heap) :
        Step([Rec("Result.map", self) EXCEPT !.fn = mapperFn],
             IF IsO(self) THEN OkayResult_map(heap, self, mapperFn)
             ELSE ErrorResult_map(heap, self, mapperFn))

BaseResult_mapOr ==
    /\ Ready
    /\ \E self \in Results(heap), mapperFn \in SmallMappers, altValue \in AltValues(heap) :
        Step([Rec("Result.mapOr", self) EXCEPT !.fn = mapperFn, !.arg = altValue],
             IF IsO(self) THEN OkayResult_mapOr(heap, self, mapperFn, altValue)
             ELSE ErrorResult_mapOr(heap, self, mapperFn, altValue))

BaseResult_mapOrElse ==
    /\ Ready
    /\ \E self \in Results(heap), mapperFn \in SmallMappers, altValueFn \in Thunks(heap) :
        Step([Rec("Result.mapOrElse", self) EXCEPT !.fn = mapperFn, !.fn2 = altValueFn],
             IF IsO(self) THEN OkayResult_mapOrElse(heap, self, mapperFn, altValueFn)
             ELSE ErrorResult_mapOrElse(heap, self, mapperFn, altValueFn))

BaseResult_mapError ==
    /\ Ready
    /\ \E self \in Results(heap), mapperFn \in Mappers(heap) :
        Step([Rec("Result.mapError", self) EXCEPT !.fn = mapperFn],
             IF IsO(self) THEN OkayResult_mapError(heap, self, mapperFn)
             ELSE ErrorResult_mapError(heap, self, mapperFn))

BaseResult_toMaybe ==
    /\ Ready
    /\ \E self \in Results(heap) :
        Step(Rec("Result.toMaybe", self),
             IF IsO(self) THEN OkayResult_toMaybe(heap, self)
             ELSE ErrorResult_toMaybe(heap, self))

\* safeUnwrap exists on an OkayResult only
OkayResult_safeUnwrap_call ==
    /\ Ready
    /\ \E self \in Results(heap) :
        /\ IsO(self)
        /\ Step(Rec("Result.safeUnwrap", self), OkayResult_safeUnwrap(heap, self))

(* ---------------------------- calls on the namespaces ------------------ *)
Maybe_withValue ==
    /\ Ready
    /\ \E value \in Values(heap) :
        Step([Rec("Maybe.withValue", 0) EXCEPT !.arg = value], withValue(heap, value))

Maybe_notFound ==
    /\ Ready
    /\ \E what \in SeqsUpTo(Labels, MaxWhat) :
        Step([Rec("Maybe.notFound", 0) EXCEPT !.what = what], notFound(heap, what))

Maybe_asNone == Step(Rec("Maybe.asNone", 0), asNone(heap))

Maybe_empty == Step(Rec("Maybe.empty", 0), empty(heap))

Maybe_wrap_call ==
    /\ Ready
    /\ \E value \in Values(heap) \cup {Undefined} :
        Step([Rec("Maybe.wrap", 0) EXCEPT !.arg = value], Maybe_wrap(heap, value))

Maybe_allOrNone ==
    /\ Ready
    /\ \E maybes \in SeqsUpTo(Maybes(heap), MaxArgs) :
        Step([Rec("Maybe.allOrNone", 0) EXCEPT !.list = maybes], allOrNone(heap, maybes))

Maybe_allValues ==
    /\ Ready
    /\ \E maybes \in SeqsUpTo(Maybes(heap), MaxArgs) :
        Step([Rec("Maybe.allValues", 0) EXCEPT !.list = maybes], allValues(heap, maybes))

Maybe_any_call ==
    /\ Ready
    /\ \E maybes \in SeqsUpTo(Maybes(heap), MaxArgs) :
        Step([Rec("Maybe.any", 0) EXCEPT !.list = maybes], Maybe_any(heap, maybes))

Result_okay ==
    /\ Ready
    /\ \E value \in Values(heap) :
        Step([Rec("Result.okay", 0) EXCEPT !.arg = value], okay(heap, value))

Result_okayVoid == Step(Rec("Result.okayVoid", 0), okayVoid(heap))

Result_error ==
    /\ Ready
    /\ \E e \in Thrown(heap) :
        Step([Rec("Result.error", 0) EXCEPT !.arg = e], error(heap, e))

Result_all ==
    /\ Ready
    /\ \E results \in SeqsUpTo(Results(heap), MaxArgs) :
        Step([Rec("Result.all", 0) EXCEPT !.list = results], all(heap, results))

Result_any_call ==
    /\ Ready
    /\ \E results \in SeqsUpTo(Results(heap), MaxArgs) :
        Step([Rec("Result.any", 0) EXCEPT !.list = results], Result_any(heap, results))

Result_wrap_call ==
    /\ Ready
    /\ \E opFn \in OpFns(heap) :
        Step([Rec("Result.wrap", 0) EXCEPT !.fn = opFn], Result_wrap(heap, opFn))

(* ---------------------------- iteration --------------------------------- *)
\* the strings of one character each that iterating the string s yields
Chars(s) == [k \in 1..Len(s) |-> Str(<<s[k]>>)]

\* The values a for...of loop over Object(value) collects, in order; <<>> when
\* Symbol.iterator is not in Object(value), which is then given an iterator
\* that is immediately done. Arrays and strings are iterable, and so is every
\* instance of the four classes, through the iterator of its own class.
RECURSIVE IteratorOf(_, _)
IteratorOf(h, value) ==
    CASE value.t = "array" -> value.items
      [] value.t = "str" -> Chars(value.msg)
      [] value.t = "ref" ->
            IF h[value.n].cls \in {"MaybeValue", "OkayResult"}
            THEN IteratorOf(h, h[value.n].value)
            ELSE <<>>
      [] OTHER -> <<>>

MaybeNone_iterator(h, self) == Return(h, Arr(<<>>), <<>>)

\* an iterator of a MaybeValue that is immediately done
MaybeValue_iterator_done(h, self) == Return(h, Arr(<<>>), <<>>)

MaybeValue_iterator(h, self) == Return(h, Arr(IteratorOf(h, h[self].value)), <<>>)

ErrorResult_iterator(h, self) == Return(h, Arr(<<>>), <<>>)

OkayResult_iterator(h, self) == Return(h, Arr(IteratorOf(h, h[self].value)), <<>>)

\* for (const item of self) on a Maybe: the call returns the items collected
BaseMaybe_iterator ==
    /\ Ready
    /\ \E self \in Maybes(heap) :
        Step(Rec("iterator", self),
             IF IsV(self) THEN MaybeValue_iterator(heap, self)
             ELSE MaybeNone_iterator(heap, self))

BaseResult_iterator ==
    /\ Ready
    /\ \E self \in Results(heap) :
        Step(Rec("Result.iterator", self),
             IF IsO(self) THEN OkayResult_iterator(heap, self)
             ELSE ErrorResult_iterator(heap, self))

(* ---------------------------- payloads of every kind ------------------- *)
\* the payloads the factories are tried on: falsy and truthy scalars, strings,
\* a plain object, arrays, and the instances of the heap
Payloads(h) ==
    {Undefined, Null, Num(0), Num(1), Bool(FALSE), Str(<<>>), Str(<<"a", "b">>),
     PlainObject, Arr(<<>>), Arr(<<Num(1), Num(2)>>)} \cup Refs(h)

Maybe_wrap_payload ==
    /\ Ready
    /\ \E value \in Payloads(heap) :
        Step([Rec("Maybe.wrap", 0) EXCEPT !.arg = value], Maybe_wrap(heap, value))

Maybe_withValue_payload ==
    /\ Ready
    /\ \E value \in Payloads(heap) :
        Step([Rec("Maybe.withValue", 0) EXCEPT !.arg = value], withValue(heap, value))

Result_okay_payload ==
    /\ Ready
    /\ \E value \in Payloads(heap) :
        Step([Rec("Result.okay", 0) EXCEPT !.arg = value], okay(heap, value))

(* ---------------------------- Result.wrapAsync -------------------------- *)
\* A promise is pending, fulfilled or rejected; settles counts the times its
\* state was set. A settled promise ignores every later attempt to settle it.
Pending == [state |-> "pending", value |-> Undefined, settles |-> 0]
NoPromise == [state |-> "none", value |-> Undefined, settles |-> 0]
Settle(p, state, value) ==
    IF p.state = "pending"
    THEN [state |-> state, value |-> value, settles |-> p.settles + 1]
    ELSE p
Promise_resolve(value) == Settle(Pending, "fulfilled", value)
Settled(p) == p.state \in {"fulfilled", "rejected"}

\* opFn throws before it returns a promise, returns a promise that is already
\* settled (an async function that returned or threw), or one still pending
Resolved(v) == Fn("resolved", v)
Rejected(v) == Fn("rejected", v)
Deferred == Fn("deferred", Undefined)
AsyncValues == {Num(1), Error(<<"x">>), Ref(OkayVoid)}
AsyncOpFns ==
    {Thrower(v) : v \in AsyncValues} \cup {Resolved(v) : v \in AsyncValues}
        \cup {Rejected(v) : v \in AsyncValues} \cup {Deferred}

\* the promise opFn() returns
opFnPromise(opFn) ==
    IF opFn.k = "resolved" THEN Settle(Pending, "fulfilled", opFn.v)
    ELSE IF opFn.k = "rejected" THEN Settle(Pending, "rejected", opFn.v)
    ELSE Pending

AsyncCall(opFn, source, then, catch, raised, thrown) ==
    [opFn |-> opFn, source |-> source, then |-> then, catch |-> catch,
     raised |-> raised, thrown |-> thrown]

\* the synchronous part of wrapAsync: the heap after it and the call's record
Result_wrapAsync_noCatch(h, opFn) ==
    IF opFn.k = "throw"
    THEN [heap |-> h,
          call |-> AsyncCall(opFn, NoPromise, NoPromise, NoPromise, TRUE, opFn.v)]
    ELSE [heap |-> h,
          call |-> AsyncCall(opFn, opFnPromise(opFn), Pending, Pending, FALSE,
                             Undefined)]
Result_wrapAsync(h, opFn) ==
    IF opFn.k = "throw"
    THEN [heap |-> Append(h, ErrorResult(h, opFn.v)),
          call |-> AsyncCall(opFn, NoPromise, NoPromise,
                             Promise_resolve(Ref(Len(h) + 1)), FALSE, Undefined)]
    ELSE [heap |-> h,
          call |-> AsyncCall(opFn, opFnPromise(opFn), Pending, Pending, FALSE,
                             Undefined)]

\* the reaction of .then((val) => new OkayResult(val)) to the settled source:
\* it has no rejection handler, so a rejection passes through
thenReaction(h, source) ==
    IF source.state = "fulfilled"
    THEN [heap |-> Append(h, OkayResult(h, source.value)), state |-> "fulfilled",
          value |-> Ref(Len(h) + 1)]
    ELSE [heap |-> h, state |-> "rejected", value |-> source.value]

\* the reaction of .catch((e) => new ErrorResult(e)) to the settled .then
\* promise: it has no fulfilment handler, so a fulfilment passes through
catchReaction(h, then) ==
    IF then.state = "rejected"
    THEN [heap |-> Append(h, ErrorResult(h, then.value)), state |-> "fulfilled",
          value |-> Ref(Len(h) + 1)]
    ELSE [heap |-> h, state |-> "fulfilled", value |-> then.value]

Job(c, reaction) == [call |-> c, reaction |-> reaction]

\* Result.wrapAsync(opFn) is called; a source that is already settled queues
\* the .then reaction at once
Result_wrapAsync_call ==
    /\ Len(async) < MaxCalls
    /\ \E opFn \in AsyncOpFns :
        LET r == Result_wrapAsync(heap, opFn)
        IN  /\ heap' = r.heap
            /\ async' = Append(async, r.call)
            /\ jobs' = IF Settled(r.call.source)
                       THEN Append(jobs, Job(Len(async) + 1, "then"))
                       ELSE jobs
    /\ UNCHANGED last

\* the pending promise opFn returned is fulfilled or rejected by its producer
opFn_settles ==
    /\ \E c \in DOMAIN async, state \in {"fulfilled", "rejected"}, v \in AsyncValues :
        /\ async[c].source.state = "pending"
        /\ async' = [async EXCEPT ![c].source = Settle(@, state, v)]
        /\ jobs' = Append(jobs, Job(c, "then"))
    /\ UNCHANGED <<heap, last>>

\* the job at the head of the queue runs: the .then reaction of a call
PromiseReactionJob_then ==
    /\ jobs # <<>>
    /\ Head(jobs).reaction = "then"
    /\ LET c == Head(jobs).call
           r == thenReaction(heap, async[c].source)
       IN  /\ heap' = r.heap
           /\ async' = [async EXCEPT ![c].then = Settle(@, r.state, r.value)]
           /\ jobs' = Append(Tail(jobs), Job(c, "catch"))
    /\ UNCHANGED last

\* the job at the head of the queue runs: the .catch reaction of a call
PromiseReactionJob_catch ==
    /\ jobs # <<>>
    /\ Head(jobs).reaction = "catch"
    /\ LET c == Head(jobs).call
           r == catchReaction(heap, async[c].then)
       IN  /\ heap' = r.heap
           /\ async' = [async EXCEPT ![c].catch = Settle(@, r.state, r.value)]
           /\ jobs' = Tail(jobs)
    /\ UNCHANGED last

(* ---------------------------- round trips ------------------------------ *)
\* x.toResult(error).toMaybe() on the Maybe self: the second call is made on
\* the instance the first returned, in the heap the first left
Maybe_toResult_toMaybe(h, self, err) ==
    LET r == IF isValue(h, self) THEN MaybeValue_toResult(h, self, err)
             ELSE MaybeNone_toResult(h, self, err)
    IN  IF isOkay(r.heap, r.ret.n) THEN OkayResult_toMaybe(r.heap, r.ret.n)
        ELSE ErrorResult_toMaybe(r.heap, r.ret.n)

\* x.toMaybe().toResult(error) on the Result self
Result_toMaybe_toResult(h, self, err) ==
    LET m == IF isOkay(h, self) THEN OkayResult_toMaybe(h, self)
             ELSE ErrorResult_toMaybe(h, self)
    IN  IF isValue(m.heap, m.ret.n) THEN MaybeValue_toResult(m.heap, m.ret.n, err)
        ELSE MaybeNone_toResult(m.heap, m.ret.n, err)

RoundTripErrors == {<<>>, <<Error(<<"x">>)>>}

BaseMaybe_toResult_toMaybe ==
    /\ Ready
    /\ \E self \in Maybes(heap), e \in RoundTripErrors :
        Step([Rec("toResult.toMaybe", self) EXCEPT !.error = e],
             Maybe_toResult_toMaybe(heap, self, e))

BaseResult_toMaybe_toResult ==
    /\ Ready
    /\ \E self \in Results(heap), e \in RoundTripErrors :
        Step([Rec("Result.toMaybe.toResult", self) EXCEPT !.error = e],
             Result_toMaybe_toResult(heap, self, e))

(* ---------------------------- specification ---------------------------- *)
Next ==
    \/ BaseMaybe_unwrap \/ BaseMaybe_unwrapOr \/ BaseMaybe_unwrapOrElse
    \/ BaseMaybe_unwrapOrNull \/ BaseMaybe_unwrapOrThrow
    \/ BaseMaybe_expectSome \/ BaseMaybe_expectNone
    \/ BaseMaybe_or \/ BaseMaybe_orElse \/ BaseMaybe_and \/ BaseMaybe_andThen
    \/ BaseMaybe_map \/ BaseMaybe_mapOr \/ BaseMaybe_mapOrElse
    \/ BaseMaybe_filter \/ BaseMaybe_toResult
    \/ BaseResult_unwrap \/ BaseResult_unwrapOr \/ BaseResult_unwrapOrElse
    \/ BaseResult_unwrapOrNull \/ BaseResult_unwrapOrThrow
    \/ BaseResult_assertIsOkay \/ BaseResult_assertIsError
    \/ BaseResult_or \/ BaseResult_orElse \/ BaseResult_and \/ BaseResult_andThen
    \/ BaseResult_map \/ BaseResult_mapOr \/ BaseResult_mapOrElse
    \/ BaseResult_mapError \/ BaseResult_toMaybe \/ OkayResult_safeUnwrap_call
    \/ Maybe_withValue \/ Maybe_notFound \/ Maybe_asNone \/ Maybe_empty
    \/ Maybe_wrap_call \/ Maybe_allOrNone \/ Maybe_allValues \/ Maybe_any_call
    \/ Result_okay \/ Result_okayVoid \/ Result_error
    \/ Result_all \/ Result_any_call \/ Result_wrap_call

Spec == Init /\ [][Next]_vars

\* The factories on payloads of every kind, and the iteration of the
\* instances they build and their conversion to the other family and back.
NextPayloads ==
    \/ Maybe_wrap_payload \/ Maybe_withValue_payload \/ Result_okay_payload
    \/ Maybe_notFound \/ Result_error
    \/ BaseMaybe_iterator \/ BaseResult_iterator
    \/ BaseMaybe_toResult_toMaybe \/ BaseResult_toMaybe_toResult

SpecPayloads == Init /\ [][NextPayloads]_vars

\* The calls of Result.wrapAsync and the promise jobs they cause. The job queue
\* of the engine runs every queued reaction job, which is the weak fairness of
\* the two job actions; nothing obliges a producer to settle its promise.
NextAsync ==
    \/ Result_wrapAsync_call \/ opFn_settles
    \/ PromiseReactionJob_then \/ PromiseReactionJob_catch

SpecAsync ==
    /\ Init
    /\ [][NextAsync]_vars
    /\ WF_vars(PromiseReactionJob_then)
    /\ WF_vars(PromiseReactionJob_catch)

(* ---------------------------- claims ---------------------------------- *)
\* the object a call returned, when it returned a reference
Returned == heap[last.ret.n]
ReturnedRef == ~last.raised /\ IsRef(last.ret)

\* C1: flattening invariant of Maybe. The payload of every MaybeValue in the
\* heap is never itself a MaybeValue, whatever calls built the heap, and
\* Maybe.withValue applied to a MaybeValue gives an instance equal to it.
C1_MaybeFlattening ==
    /\ \A i \in Ids(heap) :
          isValue(heap, i) => ~InstanceOf(heap, heap[i].value, {"MaybeValue"})
    /\ (last.op = "Maybe.withValue" /\ InstanceOf(heap, last.arg, {"MaybeValue"}))
          => /\ ReturnedRef
             /\ Returned = heap[last.arg.n]

\* Maybe.withValue was given a MaybeValue that was itself built by a call
C1_Witness ==
    /\ last.op = "Maybe.withValue"
    /\ InstanceOf(heap, last.arg, {"MaybeValue"})
    /\ last.arg.n > OkayVoid
    /\ last.created
    /\ Returned.value = Num(1)

\* C2: flattening invariant of Result. The payload of every OkayResult and
\* ErrorResult in the heap is never itself a Result, and Result.okay and
\* Result.error applied to an OkayResult or ErrorResult take its payload:
\* Okay(Okay(v)) = Okay(v), Okay(Error(e)) = Okay(e), Error(Okay(v)) = Error(v),
\* Error(Error(e)) = Error(e).
C2_ResultFlattening ==
    /\ \A i \in Results(heap) : ~InstanceOf(heap, heap[i].value, ResultClasses)
    /\ (last.op \in {"Result.okay", "Result.error"}
        /\ InstanceOf(heap, last.arg, ResultClasses))
          => /\ ReturnedRef
             /\ Returned.value = heap[last.arg.n].value
             /\ Returned.cls =
                  (IF last.op = "Result.okay" THEN "OkayResult" ELSE "ErrorResult")

\* Result.okay was given an ErrorResult
C2_Witness ==
    /\ last.op = "Result.okay"
    /\ InstanceOf(heap, last.arg, {"ErrorResult"})
    /\ last.created
    /\ Returned = Obj("OkayResult", heap[last.arg.n].value, <<>>)

\* the number of characters before the i-th label in the joined labels
RECURSIVE LabelOffset(_, _)
LabelOffset(what, i) ==
    IF i = 1 THEN 0 ELSE LabelOffset(what, i - 1) + Len(what[i - 1]) + 1

\* text is the labels of what, in order, with one space between neighbours
JoinedBySpaces(text, what) ==
    /\ Len(text) = (IF what = <<>> THEN 0
                    ELSE LabelOffset(what, Len(what)) + Len(what[Len(what)]))
    /\ \A i \in 1..Len(what) :
          /\ \A k \in 1..Len(what[i]) : text[LabelOffset(what, i) + k] = what[i][k]
          /\ i < Len(what) => text[LabelOffset(what, i) + Len(what[i]) + 1] = " "

\* C3: unwrap by variant. On a MaybeValue unwrap returns the payload; on the
\* plain MaybeNone it raises a NoneError; on a MaybeNotFound it raises a
\* NotFoundError whose message is "NotFound: " followed by the labels joined by
\* single spaces in the given order, with status and statusCode both 404.
C3_UnwrapByVariant ==
    last.op = "unwrap" =>
        CASE heap[last.self].cls = "MaybeValue" ->
                ~last.raised /\ last.ret = heap[last.self].value
          [] heap[last.self].cls = "MaybeNone" ->
                last.raised /\ last.thrown.t = "NoneError"
          [] heap[last.self].cls = "MaybeNotFound" ->
                /\ last.raised
                /\ last.thrown.t = "NotFoundError"
                /\ last.thrown.status = 404
                /\ last.thrown.statusCode = 404
                /\ Len(last.thrown.msg) >= Len(NotFoundPrefix)
                /\ SubSeq(last.thrown.msg, 1, Len(NotFoundPrefix)) = NotFoundPrefix
                /\ JoinedBySpaces(SubSeq(last.thrown.msg, Len(NotFoundPrefix) + 1,
                                         Len(last.thrown.msg)),
                                  heap[last.self].what)

\* unwrap was called on a MaybeNotFound with two different labels
C3_Witness ==
    /\ last.op = "unwrap"
    /\ heap[last.self].cls = "MaybeNotFound"
    /\ heap[last.self].what = <<<<"b", " ">>, <<"a">>>>
    /\ last.raised
    /\ last.thrown.msg = NotFoundPrefix \o <<"b", " ", " ", "a">>

\* the calls that may raise
Raisers ==
    {"unwrap", "unwrapOrThrow", "expectSome", "expectNone",
     "Result.unwrap", "Result.unwrapOrThrow", "Result.assertIsOkay",
     "Result.assertIsError"}

\* C4: error propagation policy. With callbacks that do not raise, a call
\* raises only if it is unwrap, unwrapOrThrow or an assertion helper
\* (expectSome, expectNone, assertIsOkay, assertIsError): no constructor,
\* factory, combinator, conversion, batch function or unwrapOr, unwrapOrElse,
\* unwrapOrNull raises on any input.
C4_RaisingConfined == last.raised => last.op \in Raisers

\* Maybe.allValues was given an absent input and returned
C4_Witness ==
    /\ last.op = "Maybe.allValues"
    /\ \E i \in 1..Len(last.list) : heap[last.list[i]].cls = "MaybeNotFound"
    /\ ~last.raised

\* the receiver of the last call holds a value (MaybeValue or OkayResult)
Present(i) == heap[i].cls \in {"MaybeValue", "OkayResult"}

IsFallback(c) == c.param \in {"altValueFn", "otherFn"}
IsMapper(c) == c.param = "mapperFn"

\* C5: laziness. unwrapOrElse, orElse and mapOrElse never invoke their
\* fallback callback on a MaybeValue or OkayResult; on a MaybeNone,
\* MaybeNotFound or ErrorResult they invoke it exactly once (an ErrorResult
\* passes its error value, a Maybe passes nothing) and never invoke the mapper.
C5_Laziness ==
    last.op \in {"unwrapOrElse", "orElse", "mapOrElse",
                 "Result.unwrapOrElse", "Result.orElse", "Result.mapOrElse"}
    => IF Present(last.self)
       THEN SelectSeq(last.calls, IsFallback) = <<>>
       ELSE /\ Len(SelectSeq(last.calls, IsFallback)) = 1
            /\ SelectSeq(last.calls, IsFallback)[1].fn = last.fn2
            /\ SelectSeq(last.calls, IsFallback)[1].args =
                 (IF isError(heap, last.self) THEN <<heap[last.self].value>> ELSE <<>>)
            /\ SelectSeq(last.calls, IsMapper) = <<>>

\* mapOrElse was called on an ErrorResult and on nothing but its fallback
C5_Witness ==
    /\ last.op = "Result.mapOrElse"
    /\ isError(heap, last.self)
    /\ last.calls = <<Called("altValueFn", last.fn2, <<heap[last.self].value>>)>>

\* the positions in the input list of the inputs that hold no value
Absent(list) == {i \in 1..Len(list) : ~Present(list[i])}
Min(S) == CHOOSE x \in S : \A y \in S : x <= y

\* the last call returned a new instance of class cls whose payload is the
\* array of the values of list, in order
ReturnedArrayOf(cls, list) ==
    /\ ReturnedRef
    /\ last.created
    /\ last.ret.n = Len(heap)
    /\ Returned.cls = cls
    /\ Returned.value.t = "array"
    /\ Len(Returned.value.items) = Len(list)
    /\ \A i \in 1..Len(list) : Returned.value.items[i] = heap[list[i]].value

\* C6: all-or-first-failure. Maybe.allOrNone and Result.all return the first
\* absent or failing input itself (the same instance) having examined no later
\* input; when every input holds a value they return a new MaybeValue or
\* OkayResult of the array of the payloads, of the same length and order.
C6_AllOrFirstFailure ==
    last.op \in {"Maybe.allOrNone", "Result.all"}
    => IF Absent(last.list) # {}
       THEN /\ ~last.raised
            /\ last.ret = Ref(last.list[Min(Absent(last.list))])
            /\ last.examined = Min(Absent(last.list))
            /\ ~last.created
       ELSE /\ ReturnedArrayOf(IF last.op = "Maybe.allOrNone" THEN "MaybeValue"
                               ELSE "OkayResult", last.list)
            /\ last.examined = Len(last.list)

\* allOrNone was given a value and then a MaybeNotFound with a label
C6_Witness ==
    /\ last.op = "Maybe.allOrNone"
    /\ Len(last.list) = 2
    /\ isValue(heap, last.list[1])
    /\ heap[last.list[2]].cls = "MaybeNotFound"
    /\ heap[last.list[2]].what # <<>>
    /\ last.ret = Ref(last.list[2])

C8_MaybeAny ==
    last.op = "Maybe.any"
    => /\ ~last.raised
       /\ ~last.created
       /\ last.ret =
            (IF \E i \in 1..Len(last.list) : isValue(heap, last.list[i])
             THEN Ref(last.list[Min({i \in 1..Len(last.list) :
                                       isValue(heap, last.list[i])})])
             ELSE Ref(None))

\* Maybe.any was given nothing but MaybeNotFound inputs
C8_Witness ==
    /\ last.op = "Maybe.any"
    /\ Len(last.list) = 2
    /\ \A i \in 1..2 : heap[last.list[i]].cls = "MaybeNotFound"
    /\ last.ret = Ref(None)

\* the number of MaybeValue inputs at or before position i
Rank(list, i) == Cardinality({j \in 1..i : isValue(heap, list[j])})

\* C9: Maybe.allValues returns the plain array of the payloads of exactly the
\* MaybeValue inputs, in input order; it reads every input, never raises, and
\* the array is as long as the number of MaybeValue inputs.
C9_AllValues ==
    last.op = "Maybe.allValues"
    => /\ ~last.raised
       /\ ~last.created
       /\ last.examined = Len(last.list)
       /\ last.ret.t = "array"
       /\ Len(last.ret.items) = Rank(last.list, Len(last.list))
       /\ \A i \in 1..Len(last.list) :
             isValue(heap, last.list[i])
             => last.ret.items[Rank(last.list, i)] = heap[last.list[i]].value

\* allValues was given an absent input followed by a value
C9_Witness ==
    /\ last.op = "Maybe.allValues"
    /\ Len(last.list) = 2
    /\ isNone(heap, last.list[1])
    /\ isValue(heap, last.list[2])
    /\ last.ret = Arr(<<heap[last.list[2]].value>>)

\* the payload a Result constructor stores for the argument v
Stored(v) == IF InstanceOf(heap, v, ResultClasses) THEN heap[v.n].value ELSE v

\* Result.wrap invoked opFn once, did not raise, and returned a new OkayResult
\* (opFn returned) or ErrorResult (opFn threw) with the payload payload
WrapCaptured(payload) ==
    /\ last.calls = <<Called("opFn", last.fn, <<>>)>>
    /\ ReturnedRef
    /\ last.created
    /\ last.ret.n = Len(heap)
    /\ Returned.cls = (IF last.fn.k = "throw" THEN "ErrorResult" ELSE "OkayResult")
    /\ Returned.value = payload

\* C10 as stated: Result.wrap(opFn) invokes opFn exactly once and never
\* raises; the result is an OkayResult whose payload is the value opFn
\* returned, or an ErrorResult whose value is the value opFn threw, untouched.
C10_Original == last.op = "Result.wrap" => WrapCaptured(last.fn.v)

\* C10, amended: Result.wrap(opFn) invokes opFn exactly once and never raises;
\* the result is an OkayResult (opFn returned) or an ErrorResult (opFn threw)
\* whose payload is the returned or thrown value when that value is not itself
\* a Result, and the payload of that Result when it is.
C10_WrapCaptures == last.op = "Result.wrap" => WrapCaptured(Stored(last.fn.v))

\* Result.wrap was given a function that throws an Error
C10_Witness ==
    /\ last.op = "Result.wrap"
    /\ last.fn = Thrower(Error(<<"x">>))
    /\ Returned = Obj("ErrorResult", Error(<<"x">>), <<>>)

\* C11: the promise Result.wrapAsync returns never rejects, and the call never
\* raises; it is fulfilled only once the wrapped computation threw or settled,
\* with Error(e) for a synchronous throw of e, Okay(v) for a source fulfilled
\* with v and Error(e) for a source rejected with e, so that a throw and a
\* rejection of the same value give equal outcomes; once settled it never
\* changes; and whenever the computation threw or settled, the returned
\* promise eventually settles.
AsyncOutcome(c) == heap[async[c].catch.value.n]
Concluded(c) ==
    c \in DOMAIN async /\ (async[c].opFn.k = "throw" \/ Settled(async[c].source))
C11_Settlement ==
    \A c \in DOMAIN async :
        LET a == async[c]
        IN  /\ ~a.raised
            /\ a.catch.state \in {"pending", "fulfilled"}
            /\ a.catch.settles <= 1
            /\ a.catch.state = "fulfilled" =>
                /\ Concluded(c)
                /\ IsRef(a.catch.value)
                /\ a.opFn.k = "throw" => AsyncOutcome(c) = ErrorResult(heap, a.opFn.v)
                /\ a.source.state = "fulfilled" =>
                       AsyncOutcome(c) = OkayResult(heap, a.source.value)
                /\ a.source.state = "rejected" =>
                       AsyncOutcome(c) = ErrorResult(heap, a.source.value)
C11_SameFailure ==
    \A c, d \in DOMAIN async :
        (/\ async[c].opFn.k = "throw"
         /\ async[d].source.state = "rejected"
         /\ async[d].source.value = async[c].opFn.v
         /\ async[c].catch.state = "fulfilled"
         /\ async[d].catch.state = "fulfilled")
        => AsyncOutcome(c) = AsyncOutcome(d)
C11_SettlesOnce ==
    \A c \in DOMAIN async :
        Settled(async[c].catch) => async'[c].catch = async[c].catch
C11_EventuallySettles ==
    \A c \in 1..MaxCalls : Concluded(c) ~> (c \in DOMAIN async /\ Settled(async[c].catch))
C11_WrapAsync ==
    /\ [](C11_Settlement /\ C11_SameFailure)
    /\ [][C11_SettlesOnce]_vars
    /\ C11_EventuallySettles
C11_Witness ==
    \E c, d \in DOMAIN async :
        /\ async[c].opFn.k = "throw"
        /\ async[d].opFn.k = "deferred"
        /\ async[d].source.state = "rejected"
        /\ async[d].source.value = async[c].opFn.v
        /\ async[c].catch.state = "fulfilled"
        /\ async[d].catch.state = "fulfilled"
        /\ isError(heap, async[d].catch.value.n)

\* C12: Maybe-to-Result conversion. toResult returns a new Result: on a
\* MaybeValue with payload v it equals Okay(v) whatever the error argument;
\* on an absent Maybe it equals Error(e) for every error argument e, and an
\* Error carrying a NoneError when the argument is omitted (an argument of
\* undefined is an omitted argument).
ErrorOmitted == last.error = <<>> \/ last.error[1] = Undefined
C12_Conversion ==
    last.op = "toResult" =>
        /\ ReturnedRef
        /\ last.created
        /\ IF IsV(last.self) THEN Returned = OkayResult(heap, heap[last.self].value)
           ELSE IF ErrorOmitted THEN Returned = ErrorResult(heap, NoneError(<<>>))
           ELSE Returned = ErrorResult(heap, last.error[1])

\* C13 as stated: toMaybe on an OkayResult returns a new MaybeValue carrying
\* the very payload of the receiver, and on an ErrorResult it returns the
\* Maybe.None singleton.
C13_Original ==
    last.op = "Result.toMaybe" =>
        IF IsO(last.self)
        THEN /\ ReturnedRef
             /\ Returned.cls = "MaybeValue"
             /\ Returned.value = heap[last.self].value
        ELSE ~last.raised /\ last.ret = Ref(None)

\* C13: Result-to-Maybe conversion. toMaybe on an OkayResult with payload v
\* returns a new instance equal to Value(v): a MaybeValue carrying v, or the
\* payload of v when v is itself a MaybeValue; on an ErrorResult it returns the
\* Maybe.None singleton itself, creating nothing and keeping no error detail.
C13_ToMaybe ==
    last.op = "Result.toMaybe" =>
        LET v == heap[last.self].value
        IN  IF IsO(last.self)
            THEN /\ ReturnedRef
                 /\ last.created
                 /\ last.ret.n = Len(heap)
                 /\ Returned = MaybeValue(heap, v)
                 /\ Returned.cls = "MaybeValue"
                 /\ Returned.value = IF InstanceOf(heap, v, {"MaybeValue"})
                                     THEN heap[v.n].value ELSE v
            ELSE /\ ~last.raised
                 /\ last.ret = Ref(None)
                 /\ ~last.created
                 /\ heap[None] = MaybeNone
C13_Witness ==
    /\ last.op = "Result.toMaybe"
    /\ IsO(last.self)
    /\ InstanceOf(heap, heap[last.self].value, {"MaybeValue"})
    /\ Returned.value = Undefined

\* C14: monadic bind. andThen on a MaybeValue or OkayResult with payload v
\* invokes mapperFn exactly once, with v, and returns exactly the instance
\* mapperFn returned: nothing is created or re-wrapped.
C14_Bind ==
    (last.op \in {"andThen", "Result.andThen"} /\ Present(last.self)) =>
        LET v == heap[last.self].value
        IN  /\ ~last.raised
            /\ last.ret = Apply(last.fn, <<v>>)
            /\ ~last.created
            /\ last.calls = <<Called("mapperFn", last.fn, <<v>>)>>
C14_Witness ==
    /\ last.op = "andThen"
    /\ IsV(last.self)
    /\ last.ret.n # last.self
    /\ heap[last.ret.n] = heap[last.self]
    /\ \E i \in Results(heap) : isOkay(heap, i)

\* the operations a chain on an absent Maybe is made of, and the longest chain
ChainOps == {"map", "and", "andThen", "filter"}
ResultChainOps == {"Result.map", "Result.and", "Result.andThen"}

\* the outcome of the operation op on the absent Maybe self, with a mapper, a
\* present other Maybe and a predicate that would each change a MaybeValue
ChainCall(h, self, op) ==
    CASE op = "map" -> MaybeNone_map(h, self, Const(Num(2)))
      [] op = "and" -> MaybeNone_and(h, self, Ref(Empty))
      [] op = "andThen" -> MaybeNone_andThen(h, self, Const(Ref(Empty)))
      [] op = "filter" -> MaybeNone_filter(h, self, Never)

\* the instance at the end of the chain ops that starts on self
RECURSIVE Chain(_, _, _)
Chain(h, self, ops) ==
    IF ops = <<>> THEN self
    ELSE Chain(h, ChainCall(h, self, Head(ops)).ret.n, Tail(ops))

\* C15: absent short-circuit. On a MaybeNone or MaybeNotFound map, and, andThen
\* and filter return the receiver itself, invoke nothing and create nothing;
\* so unwrap at the end of every chain of them that continues from a call on a
\* MaybeNotFound raises the NotFoundError of the receiver's own labels. On an
\* ErrorResult map, and and andThen return the receiver itself and invoke nothing.
C15_AbsentShortCircuit ==
    /\ ((last.op \in ChainOps /\ ~IsV(last.self))
        \/ (last.op \in ResultChainOps /\ ~IsO(last.self))) =>
            /\ ~last.raised
            /\ last.ret = Ref(last.self)
            /\ last.calls = <<>>
            /\ ~last.created
    /\ (last.op \in ChainOps /\ heap[last.self].cls = "MaybeNotFound") =>
        \A ops \in SeqsUpTo(ChainOps, MaxChain) :
            LET out == Maybe_unwrap(heap, Chain(heap, last.ret.n, ops))
            IN  /\ out.raised
                /\ out.thrown.t = "NotFoundError"
                /\ SubSeq(out.thrown.msg, 1, Len(NotFoundPrefix)) = NotFoundPrefix
                /\ JoinedBySpaces(SubSeq(out.thrown.msg, Len(NotFoundPrefix) + 1,
                                         Len(out.thrown.msg)),
                                  heap[last.self].what)
C15_Witness ==
    /\ last.op = "filter"
    /\ heap[last.self].cls = "MaybeNotFound"
    /\ Len(heap[last.self].what) = 2
    /\ last.fn = Always

\* the outcomes of the unwrap family on the Maybe i: unwrap, unwrapOr,
\* unwrapOrElse, unwrapOrNull and unwrapOrThrow with every override
MaybeUnwrapFamily(h, i) ==
    <<Maybe_unwrap(h, i),
      IF isValue(h, i) THEN MaybeValue_unwrapOr(h, i, Num(2))
      ELSE MaybeNone_unwrapOr(h, i, Num(2)),
      IF isValue(h, i) THEN MaybeValue_unwrapOrElse(h, i, Const(Num(2)))
      ELSE MaybeNone_unwrapOrElse(h, i, Const(Num(2))),
      IF isValue(h, i) THEN MaybeValue_unwrapOrNull(h, i)
      ELSE MaybeNone_unwrapOrNull(h, i),
      [alt \in AltErrors |->
          IF isValue(h, i) THEN MaybeValue_unwrapOrThrow(h, i, alt)
          ELSE MaybeNone_unwrapOrThrow(h, i, alt)]>>

\* the same for the Result i
ResultUnwrapFamily(h, i) ==
    <<IF isOkay(h, i) THEN OkayResult_unwrap(h, i) ELSE ErrorResult_unwrap(h, i),
      IF isOkay(h, i) THEN OkayResult_unwrapOr(h, i, Num(2))
      ELSE ErrorResult_unwrapOr(h, i, Num(2)),
      IF isOkay(h, i) THEN OkayResult_unwrapOrElse(h, i, Identity)
      ELSE ErrorResult_unwrapOrElse(h, i, Identity),
      IF isOkay(h, i) THEN OkayResult_unwrapOrNull(h, i)
      ELSE ErrorResult_unwrapOrNull(h, i),
      [alt \in AltErrors |->
          IF isOkay(h, i) THEN OkayResult_unwrapOrThrow(h, i, alt)
          ELSE ErrorResult_unwrapOrThrow(h, i, alt)]>>

\* C16: functor identity law. For every Maybe and Result x, x.map(identity)
\* returns an instance of the same class with the same payload (and labels),
\* on which every operation of the unwrap family has the outcome it has on x.
C16_FunctorIdentity ==
    (last.op \in {"map", "Result.map"} /\ last.fn = Identity) =>
        /\ ReturnedRef
        /\ Returned.cls = heap[last.self].cls
        /\ Returned.value = heap[last.self].value
        /\ Returned.what = heap[last.self].what
        /\ last.op = "map" =>
              MaybeUnwrapFamily(heap, last.ret.n) = MaybeUnwrapFamily(heap, last.self)
        /\ last.op = "Result.map" =>
              ResultUnwrapFamily(heap, last.ret.n) = ResultUnwrapFamily(heap, last.self)
C16_Witness ==
    /\ last.op = "Result.map"
    /\ last.fn = Identity
    /\ IsO(last.self)
    /\ last.ret.n # last.self
    /\ heap[last.self].value = Num(1)

\* the value mapOr / mapOrElse hands to the constructor: mapperFn(v) on a
\* present receiver, else altValue, altValueFn() or altValueFn(e)
MapOrOps == {"mapOr", "mapOrElse", "Result.mapOr", "Result.mapOrElse"}
MapOrValue ==
    LET v == heap[last.self].value
    IN  IF Present(last.self) THEN Apply(last.fn, <<v>>)
        ELSE IF last.op \in {"mapOr", "Result.mapOr"} THEN last.arg
        ELSE IF last.op = "mapOrElse" THEN Apply(last.fn2, <<>>)
        ELSE Apply(last.fn2, <<v>>)
MapOrClass == IF last.op \in {"mapOr", "mapOrElse"} THEN "MaybeValue" ELSE "OkayResult"

\* C17 as stated: mapOr and mapOrElse return a MaybeValue (on a Maybe) or an
\* OkayResult (on a Result) whose payload is the value MapOrValue itself.
C17_Original ==
    last.op \in MapOrOps =>
        /\ ReturnedRef
        /\ Returned.cls = MapOrClass
        /\ Returned.value = MapOrValue

\* the payload a MaybeValue constructor stores for the argument v
StoredInMaybe(v) ==
    IF InstanceOf(heap, v, {"MaybeValue"}) THEN heap[v.n].value ELSE v

\* C17: mapOr and mapOrElse always return a new present instance, a MaybeValue
\* on every Maybe and an OkayResult on every Result, built by the constructor
\* from mapperFn(v) on a present receiver and from altValue, altValueFn() or
\* altValueFn(e) on an absent one: its payload is that value, or the payload
\* of that value when it is itself a MaybeValue (Maybe) or a Result (Result).
C17_MapOrPresent ==
    last.op \in MapOrOps =>
        /\ ReturnedRef
        /\ last.created
        /\ last.ret.n = Len(heap)
        /\ Returned.cls = MapOrClass
        /\ Returned.value = IF MapOrClass = "MaybeValue" THEN StoredInMaybe(MapOrValue)
                            ELSE Stored(MapOrValue)
C17_Witness ==
    /\ last.op = "mapOr"
    /\ heap[last.self].cls = "MaybeNotFound"
    /\ last.arg = Ref(Empty)
    /\ Returned.value = Undefined

\* C18: filter. On a MaybeValue with payload v, filter invokes predicateFn
\* exactly once, with v, and returns the receiver itself when the predicate
\* holds and the Maybe.None singleton otherwise; on an absent Maybe it invokes
\* nothing and returns the receiver. It never raises and creates nothing.
C18_Filter ==
    last.op = "filter" =>
        LET v == heap[last.self].value
        IN  /\ ~last.raised
            /\ ~last.created
            /\ heap[None] = MaybeNone
            /\ IF IsV(last.self)
               THEN /\ last.calls = <<Called("predicateFn", last.fn, <<v>>)>>
                    /\ last.ret = IF Test(last.fn, <<v>>) THEN Ref(last.self)
                                  ELSE Ref(None)
               ELSE /\ last.calls = <<>>
                    /\ last.ret = Ref(last.self)
C18_Witness ==
    /\ last.op = "filter"
    /\ IsV(last.self)
    /\ last.fn = IsNumber
    /\ heap[last.self].value = Null
    /\ last.ret = Ref(None)

\* C19: the override of Maybe.unwrapOrThrow. On a MaybeValue it returns the
\* payload and invokes nothing. On an absent Maybe it raises: altError itself
\* when that is an Error; what altError() returns, invoked once, when it is a
\* function; a NoneError whose message is altError when it is a string, for
\* every string; and with altError omitted exactly what unwrap raises on the
\* receiver (NoneError, or the NotFoundError of the labels).
C19_UnwrapOrThrow ==
    last.op = "unwrapOrThrow" =>
        IF IsV(last.self)
        THEN /\ ~last.raised
             /\ last.ret = heap[last.self].value
             /\ last.calls = <<>>
        ELSE /\ last.raised
             /\ CASE last.alt.k = "error" ->
                        last.thrown = last.alt.v /\ last.calls = <<>>
                  [] last.alt.k = "function" ->
                        /\ last.thrown = Apply(last.alt.fn, <<>>)
                        /\ last.calls = <<Called("altError", last.alt.fn, <<>>)>>
                  [] last.alt.k = "string" ->
                        /\ last.thrown.t = "NoneError"
                        /\ last.thrown.msg = last.alt.s
                        /\ last.calls = <<>>
                  [] last.alt.k = "omitted" ->
                        /\ last.thrown = Maybe_unwrap(heap, last.self).thrown
                        /\ last.calls = <<>>

\* C20: the unwrap family of Result. On an ErrorResult with value e, unwrap
\* raises e itself, and so does unwrapOrThrow without an override;
\* unwrapOrThrow(altError) raises altError when it is an Error, altError(e)
\* when it is a function, and a new Error with that message when it is a
\* string. On an OkayResult with payload v, unwrap, unwrapOr, unwrapOrElse,
\* unwrapOrNull, unwrapOrThrow and safeUnwrap all return v.
ResultUnwrapOps ==
    {"Result.unwrap", "Result.unwrapOr", "Result.unwrapOrElse", "Result.unwrapOrNull",
     "Result.unwrapOrThrow", "Result.safeUnwrap"}
C20_ResultUnwrap ==
    LET e == heap[last.self].value
    IN  /\ (last.op \in ResultUnwrapOps /\ IsO(last.self)) =>
              ~last.raised /\ last.ret = heap[last.self].value
        /\ (last.op = "Result.unwrap" /\ ~IsO(last.self)) =>
              last.raised /\ last.thrown = e
        /\ (last.op = "Result.unwrapOrThrow" /\ ~IsO(last.self)) =>
              /\ last.raised
              /\ CASE last.alt.k = "omitted" -> last.thrown = e
                   [] last.alt.k = "error" -> last.thrown = last.alt.v
                   [] last.alt.k = "function" ->
                         last.thrown = Apply(last.alt.fn, <<e>>)
                   [] last.alt.k = "string" -> last.thrown = Error(last.alt.s)

\* C21 as stated: Maybe.wrap(x) returns the Maybe.None singleton exactly when
\* x is null or undefined, and for every other x a new MaybeValue whose
\* payload is x itself.
C21_Original ==
    last.op = "Maybe.wrap" =>
        IF last.arg \in {Null, Undefined}
        THEN ~last.raised /\ last.ret = Ref(None)
        ELSE /\ ReturnedRef
             /\ Returned.cls = "MaybeValue"
             /\ Returned.value = last.arg

\* C21: Maybe.wrap(x) returns the Maybe.None singleton, creating nothing,
\* exactly when x is null or undefined; for every other x, the falsy 0, ""
\* and false included, it returns a new MaybeValue whose payload is x, or the
\* payload of x when x is itself a MaybeValue.
C21_Wrap ==
    last.op = "Maybe.wrap" =>
        IF last.arg \in {Null, Undefined}
        THEN ~last.raised /\ last.ret = Ref(None) /\ ~last.created
        ELSE /\ ReturnedRef
             /\ last.created
             /\ last.ret.n = Len(heap)
             /\ Returned.cls = "MaybeValue"
             /\ Returned.value = StoredInMaybe(last.arg)
C21_Witness ==
    /\ last.op = "Maybe.wrap"
    /\ InstanceOf(heap, last.arg, {"MaybeValue"})
    /\ heap[last.arg.n].value = Num(0)
    /\ last.ret # last.arg
    /\ Returned.value = Num(0)

\* C22: singletons. In every reachable state the three shared instances are
\* what they were at the start: Maybe.None absent, Maybe.Empty and
\* Result.OkayVoid present with the payload undefined. Maybe.asNone(),
\* Maybe.empty() and Result.okayVoid() return those very instances on every
\* call and create nothing.
C22_Singletons ==
    /\ heap[None] = InitHeap[None]
    /\ heap[Empty] = InitHeap[Empty]
    /\ heap[OkayVoid] = InitHeap[OkayVoid]
    /\ isNone(heap, None) /\ ~isValue(heap, None)
    /\ isValue(heap, Empty) /\ heap[Empty].value = Undefined
    /\ isOkay(heap, OkayVoid) /\ heap[OkayVoid].value = Undefined
    /\ last.op \in {"Maybe.asNone", "Maybe.empty", "Result.okayVoid"} =>
          /\ ~last.raised
          /\ ~last.created
          /\ last.ret = CASE last.op = "Maybe.asNone" -> Ref(None)
                          [] last.op = "Maybe.empty" -> Ref(Empty)
                          [] last.op = "Result.okayVoid" -> Ref(OkayVoid)
C22_Witness ==
    /\ last.op = "Result.okayVoid"
    /\ last.ret = Ref(OkayVoid)
    /\ Len(heap) = MaxHeap - 1
    /\ \E i \in Results(heap) : i # OkayVoid /\ heap[i] = heap[OkayVoid]

\* C23: immutability. No call changes an instance that exists: in every step
\* every object of the heap keeps its class (its discriminants), its payload
\* and its labels, whether it was the receiver, an argument, a list element or
\* the source of a conversion; a call can only add new objects.
C23_Frame == \A i \in Ids(heap) : i \in Ids(heap') /\ heap'[i] = heap[i]
C23_Immutable == [][C23_Frame]_vars
C23_Witness ==
    /\ last.op = "toResult"
    /\ last.self > OkayVoid
    /\ heap[last.self] = MaybeValue(heap, Num(1))
    /\ last.created
    /\ Returned = OkayResult(heap, Num(1))

\* C24: the discriminants are exclusive and exhaustive. Every Maybe of the
\* heap (MaybeValue, MaybeNone, MaybeNotFound, the Empty singleton) has exactly
\* one of isValue and isNone, every Result exactly one of isOkay and isError,
\* and every MaybeNotFound has isNone.
C24_Discriminants ==
    /\ \A i \in Maybes(heap) :
          /\ isValue(heap, i) = ~isNone(heap, i)
          /\ heap[i].cls = "MaybeNotFound" => isNone(heap, i)
    /\ \A i \in Results(heap) : isOkay(heap, i) = ~isError(heap, i)
    /\ \A i \in Ids(heap) : i \in Maybes(heap) \/ i \in Results(heap)
    /\ isValue(heap, Empty)
C24_Witness ==
    /\ \E i \in Maybes(heap) : heap[i].cls = "MaybeNotFound"
    /\ \E i \in Results(heap) : isError(heap, i)

\* C25: boolean or / and. With x the receiver and y the other instance (given
\* directly, or as the function () => y): x.or(y) and x.orElse(() => y) are x
\* itself when x is a MaybeValue or OkayResult and y otherwise; x.and(y) is y
\* when x is a MaybeValue or OkayResult and x itself otherwise. Nothing is
\* created and nothing is raised.
C25_OrAnd ==
    LET x == Ref(last.self)
    IN  /\ last.op \in {"or", "Result.or"} =>
              /\ ~last.raised /\ ~last.created
              /\ last.ret = IF Present(last.self) THEN x ELSE last.arg
        /\ last.op \in {"orElse", "Result.orElse"} =>
              /\ ~last.raised /\ ~last.created
              /\ last.ret = IF Present(last.self) THEN x ELSE last.fn2.v
        /\ last.op \in {"and", "Result.and"} =>
              /\ ~last.raised /\ ~last.created
              /\ last.ret = IF Present(last.self) THEN last.arg ELSE x
C25_Witness ==
    /\ last.op = "and"
    /\ IsV(last.self)
    /\ heap[last.self].value = Num(1)
    /\ last.arg = Ref(Empty)
    /\ last.ret = Ref(Empty)

\* on an OkayResult mapError returned the receiver and invoked nothing; on an
\* ErrorResult with value e it invoked mapperFn once, with e, and returned a
\* new ErrorResult whose value is value
MapErrorGave(value) ==
    IF IsO(last.self)
    THEN /\ ~last.raised
         /\ last.ret = Ref(last.self)
         /\ last.calls = <<>>
         /\ ~last.created
    ELSE /\ ReturnedRef
         /\ last.created
         /\ last.ret.n = Len(heap)
         /\ last.calls = <<Called("mapperFn", last.fn, <<heap[last.self].value>>)>>
         /\ Returned.cls = "ErrorResult"
         /\ Returned.value = value

\* C26 as stated: the value of Error(e).mapError(f) is f(e) itself.
C26_Original ==
    last.op = "Result.mapError" =>
        MapErrorGave(Apply(last.fn, <<heap[last.self].value>>))

\* C26: mapError transforms the error value only. Okay(v).mapError(f) is the
\* receiver itself and f is not invoked; Error(e).mapError(f) invokes f exactly
\* once, with e, and is a new Error equal to Error(f(e)): its value is f(e), or
\* the payload of f(e) when f(e) is itself a Result.
C26_MapError ==
    last.op = "Result.mapError" =>
        MapErrorGave(Stored(Apply(last.fn, <<heap[last.self].value>>)))
C26_Witness ==
    /\ last.op = "Result.mapError"
    /\ ~IsO(last.self)
    /\ last.fn = Const(Ref(OkayVoid))
    /\ heap[last.self].value = Error(<<"x">>)
    /\ Returned.value = Undefined

ScalarKinds == {"num", "bool", "str", "undefined", "null", "object"}
IteratorOps == {"iterator", "Result.iterator"}

\* C27 as stated: iteration never raises; a MaybeValue or OkayResult whose
\* payload is an array yields its elements in order; a MaybeNone,
\* MaybeNotFound or ErrorResult, and a MaybeValue or OkayResult whose payload
\* is a number, boolean, string, undefined, null or plain object, yield nothing.
C27_Original ==
    last.op \in IteratorOps =>
        LET payload == heap[last.self].value
        IN  /\ ~last.raised
            /\ (Present(last.self) /\ payload.t = "array") =>
                  last.ret = Arr(payload.items)
            /\ (~Present(last.self) \/ payload.t \in ScalarKinds) =>
                  last.ret = Arr(<<>>)

\* C27: iteration never raises and creates nothing. A MaybeNone, MaybeNotFound
\* or ErrorResult yields nothing. A MaybeValue or OkayResult yields the
\* elements of an array payload in order, the characters of a string payload
\* in order (nothing for the empty string), what the instance yields when the
\* payload is itself a Maybe or Result, and nothing when the payload is a
\* number, boolean, undefined, null or plain object.
C27_Iteration ==
    last.op \in IteratorOps =>
        LET payload == heap[last.self].value
        IN  /\ ~last.raised
            /\ ~last.created
            /\ last.ret.t = "array"
            /\ ~Present(last.self) => last.ret = Arr(<<>>)
            /\ Present(last.self) =>
                CASE payload.t = "array" -> last.ret = Arr(payload.items)
                  [] payload.t = "str" ->
                        /\ Len(last.ret.items) = Len(payload.msg)
                        /\ \A k \in 1..Len(payload.msg) :
                              last.ret.items[k] = Str(<<payload.msg[k]>>)
                  [] payload.t = "ref" ->
                        last.ret =
                            (IF isValue(heap, payload.n)
                             THEN MaybeValue_iterator(heap, payload.n)
                             ELSE IF isOkay(heap, payload.n)
                             THEN OkayResult_iterator(heap, payload.n)
                             ELSE MaybeNone_iterator(heap, payload.n)).ret
                  [] OTHER -> last.ret = Arr(<<>>)
C27_Witness ==
    /\ last.op = "iterator"
    /\ IsV(last.self)
    /\ heap[last.self].value = Str(<<"a", "b">>)
    /\ last.ret = Arr(<<Str(<<"a">>), Str(<<"b">>)>>)

\* C28: the assertion helpers of Maybe. expectSome(message?) returns the
\* payload of a MaybeValue and raises, on a MaybeNone and on a MaybeNotFound
\* alike, a NoneError whose message is the message given, or "Maybe is none"
\* when none is given. expectNone(message?) returns the receiver itself when
\* it is absent and raises, on a MaybeValue, an Error whose message is the
\* message given, or "Expected None, have " followed by the rendering of the
\* MaybeValue, "Value(" payload ")", when none is given.
C28_Expect ==
    /\ last.op = "expectSome" =>
          IF IsV(last.self)
          THEN ~last.raised /\ last.ret = heap[last.self].value
          ELSE /\ last.raised
               /\ last.thrown.t = "NoneError"
               /\ last.thrown.msg = IF last.message = <<>> THEN NoneErrorDefaultMessage
                                    ELSE last.message[1]
    /\ last.op = "expectNone" =>
          IF IsV(last.self)
          THEN /\ last.raised
               /\ last.thrown.t = "Error"
               /\ last.thrown.msg =
                     IF last.message = <<>>
                     THEN ExpectedNoneHave \o <<"V", "a", "l", "u", "e", "(">>
                          \o toString(heap, heap[last.self].value) \o <<")">>
                     ELSE last.message[1]
          ELSE ~last.raised /\ last.ret = Ref(last.self)
C28_Witness ==
    /\ last.op = "expectNone"
    /\ IsV(last.self)
    /\ heap[last.self].value = Num(1)
    /\ last.message = <<>>
    /\ last.thrown.msg =
          <<"E", "x", "p", "e", "c", "t", "e", "d", " ", "N", "o", "n", "e", ",", " ",
            "h", "a", "v", "e", " ", "V", "a", "l", "u", "e", "(", "1", ")">>

RoundTripOps == {"toResult.toMaybe", "Result.toMaybe.toResult"}

\* C29 as stated: for every payload v, an instance of the other family
\* included, Value(v).toResult(e).toMaybe() is a MaybeValue with the payload v
\* and Okay(v).toMaybe().toResult(e) is an OkayResult with the payload v.
C29_Original ==
    (last.op \in RoundTripOps /\ Present(last.self)) =>
        /\ ReturnedRef
        /\ Returned = heap[last.self]

\* C29: cross-family round trip. Value(v).toResult(e).toMaybe() is a new
\* MaybeValue and Okay(v).toMaybe().toResult(e) a new OkayResult, whatever e
\* is. Its payload is v when v is not an instance that a constructor on the way
\* unwraps; a Result inside a Value is replaced by its payload (and a
\* MaybeValue found there by its payload), and a MaybeValue inside an Okay is
\* replaced by its payload (and a Result found there by its payload). A
\* MaybeNone or MaybeNotFound inside an Okay is carried as it is.
C29_RoundTrip ==
    (last.op \in RoundTripOps /\ Present(last.self)) =>
        LET v == heap[last.self].value
        IN  /\ ReturnedRef
            /\ last.created
            /\ last.ret.n = Len(heap)
            /\ Returned.cls = heap[last.self].cls
            /\ Returned.value = IF last.op = "toResult.toMaybe"
                                THEN StoredInMaybe(Stored(v))
                                ELSE Stored(StoredInMaybe(v))
            /\ ~(InstanceOf(heap, v, ResultClasses \cup {"MaybeValue"})) =>
                  Returned = heap[last.self]
C29_Witness ==
    /\ last.op = "toResult.toMaybe"
    /\ IsV(last.self)
    /\ heap[last.self].value = Ref(OkayVoid)
    /\ Returned.cls = "MaybeValue"
    /\ Returned.value = Undefined

\* C30: the batch functions on no inputs. None of them raises;
\* Maybe.allOrNone() returns a new MaybeValue of the empty array, Result.all()
\* a new OkayResult of the empty array, Maybe.allValues() the empty array,
\* Maybe.any() the Maybe.None singleton, and Result.any() a new ErrorResult of
\* the empty array.
BatchOps == {"Maybe.allOrNone", "Result.all", "Maybe.allValues", "Maybe.any", "Result.any"}
C30_EmptyBatch ==
    (last.op \in BatchOps /\ last.list = <<>>) =>
        /\ ~last.raised
        /\ CASE last.op = "Maybe.allOrNone" ->
                  /\ ReturnedRef /\ last.created
                  /\ Returned = Obj("MaybeValue", Arr(<<>>), <<>>)
             [] last.op = "Result.all" ->
                  /\ ReturnedRef /\ last.created
                  /\ Returned = Obj("OkayResult", Arr(<<>>), <<>>)
             [] last.op = "Maybe.allValues" ->
                  last.ret = Arr(<<>>) /\ ~last.created
             [] last.op = "Maybe.any" ->
                  last.ret = Ref(None) /\ ~last.created
             [] last.op = "Result.any" ->
                  /\ ReturnedRef /\ last.created
                  /\ Returned = Obj("ErrorResult", Arr(<<>>), <<>>)
C30_Witness ==
    /\ last.op = "Result.any"
    /\ last.list = <<>>
    /\ Returned.cls = "ErrorResult"
    /\ Returned.value = Arr(<<>>)
====
